---- MODULE Spec2Model ----
(***************************************************************************)
(* Touch-mode engine of ControllerMapper (src/TouchMode.cpp,               *)
(* src/ControllerMapper.cpp): the per-cycle handler handleTouchControl,    *)
(* the movement/lock update handleTouchMovementUpdate and the geometry     *)
(* helpers they call.                                                      *)
(*                                                                         *)
(* Fixed point: angles are tenths of a degree (22.5 degrees = 225), stick  *)
(* coordinates and unit-circle coordinates are thousandths (1.0 = 1000).   *)
(* The value passed to an injector call is recorded in `sent`, the list of *)
(* InjectTouchInput calls issued by the last cycle, each call being the    *)
(* vector of touch infos it carries.                                       *)
(***************************************************************************)
EXTENDS Integers, Sequences, FiniteSets, TLC

\* Number of sampled stick positions each side draws its input from.
MaxStick == 3

\* static constexpr int DIRECTION_SECTORS = 8
DIRECTION_SECTORS == 8
\* static constexpr double DEGREES_PER_SECTOR = 45.0 (tenths of a degree)
DEGREES_PER_SECTOR == 450
\* the "no direction" / "no lock" sentinel -1 of the int fields
NONE == -1
\* the "no input" sentinel -1 of calculateAngle (-1.0 degrees)
NoAngle == -10

\* Sampled stick positions <<x, y>>: the centre, the spec's (0.7, 0.7), a
\* position at 190 degrees (clockwise from the top), straight up, the arc
\* centre of sector 0 and straight left.
StickTable ==
    << <<0, 0>>, <<700, 700>>, <<-174, -985>>, <<0, 1000>>, <<383, 924>>, <<-1000, 0>> >>

Sticks == { StickTable[i] : i \in 1..MaxStick }

\* Stick vectors on which the geometry functions are examined on their own:
\* the positions above, the eight arc centres, the four axes, vectors far
\* outside the unit circle and vectors next to the centre.
GeoSticks ==
    { StickTable[i] : i \in 1..6 } \cup
    { <<924, 383>>, <<924, -383>>, <<383, -924>>, <<-383, -924>>,
      <<-924, -383>>, <<-924, 383>>, <<-383, 924>>,
      <<1000, 0>>, <<0, -1000>>,
      <<3000, 3000>>, <<-5000, 0>>, <<0, 5000>>, <<0, -4000>>,
      <<10, 0>>, <<0, 1>>, <<-1, -1>> }

\* std::atan2(y, x) * 180 / PI on the sampled positions, in tenths of a degree.
atan2Deg(y, x) ==
    CASE x = 700 /\ y = 700 -> 450
      [] x = -174 /\ y = -985 -> -1000
      [] x = 0 /\ y = 1000 -> 900
      [] x = 383 /\ y = 924 -> 675
      [] x = -1000 /\ y = 0 -> 1800
      [] x = 924 /\ y = 383 -> 225
      [] x = 924 /\ y = -383 -> -225
      [] x = 383 /\ y = -924 -> -675
      [] x = -383 /\ y = -924 -> -1125
      [] x = -924 /\ y = -383 -> -1575
      [] x = -924 /\ y = 383 -> 1575
      [] x = -383 /\ y = 924 -> 1125
      [] x = 0 /\ y = -1000 -> -900
      [] x = 3000 /\ y = 3000 -> 450
      [] x = -5000 /\ y = 0 -> 1800
      [] x = 0 /\ y = 5000 -> 900
      [] x = 0 /\ y = -4000 -> -900
      [] x = 0 /\ y = 1 -> 900
      [] x = -1 /\ y = -1 -> -1350
      [] OTHER -> 0

\* What the double arithmetic of calculateAngle adds to the tenths.  An
\* angle inside calculateAngle is a pair << tenths, ulps >>: tenths of a
\* degree plus ulps * 2^-47 degrees.  PI is 3.14159265359 (ControllerInput.h
\* 163), a little more than pi, so atan2(y, x) * 180.0 / PI falls a little
\* short of the multiples of 45 degrees: by 417 * 2^-47 degrees per 45 degrees
\* (89.99999999999407 for a stick straight up).  The positions that are not
\* on an axis or a diagonal are taken at their nearest tenth.
atan2Ulps(y, x) ==
    CASE x = 0 /\ y > 0 -> -834
      [] x = 0 /\ y < 0 -> 834
      [] x < 0 /\ y = 0 -> -1668
      [] x > 0 /\ x = y -> -417
      [] x < 0 /\ x = y -> 1252
      [] OTHER -> 0

\* atan2(y, x) * 180.0 / PI (ControllerMapper.cpp 1131)
toDegrees(y, x) == << atan2Deg(y, x), atan2Ulps(y, x) >>

\* a < 0 on the pairs
belowZero(a) == a[1] < 0 \/ (a[1] = 0 /\ a[2] < 0)

\* the spacing of the doubles around a, in units of 2^-47 degrees: 2^-44
\* degrees from 256 degrees on, 2^-45 from 128, 2^-46 from 64, and no
\* coarser than the unit below
spacing(a) ==
    LET m == IF a[1] < 0 THEN 0 - a[1] ELSE a[1]
    IN  IF m >= 2560 THEN 8 ELSE IF m >= 1280 THEN 4 ELSE IF m >= 640 THEN 2 ELSE 1

\* u rounded to the nearest multiple of g, ties to the even multiple
roundToMultiple(u, g) ==
    LET q == u \div g
        r == u - q * g
    IN  IF 2 * r < g THEN q * g
        ELSE IF 2 * r > g THEN (q + 1) * g
        ELSE IF q % 2 = 0 THEN q * g ELSE (q + 1) * g

\* the double nearest to the exact result a of an addition or subtraction
roundDouble(a) == << a[1], roundToMultiple(a[2], spacing(a)) >>

\* angle += 360 when angle < 0 (1134-1136, 1140-1142)
wrapNegative(a) == IF belowZero(a) THEN roundDouble(<< a[1] + 3600, a[2] >>) ELSE a

\* angle = angle - 90 (1139)
quarterTurnBack(a) == roundDouble(<< a[1] - 900, a[2] >>)

\* angle = 360 - angle (1145)
clockwise(a) == roundDouble(<< 3600 - a[1], 0 - a[2] >>)

\* lines 1134-1147 on the angle in degrees that line 1131 computed
rotateFromTop(a) == clockwise(wrapNegative(quarterTurnBack(wrapNegative(a))))

\* the tenths of a degree an angle has reached: 179.9999999999941 is 1799
\* tenths and exactly 360.0 is 3600, so that floor(angle / 45) is the same on
\* the tenths as on the double
floorTenth(a) == IF a[2] < 0 THEN a[1] - 1 ELSE a[1]

\* calculateAngle with a dead zone around the centre instead of the single
\* point (0,0) (a variant C23 must tell apart from the code)
calculateAngleDeadZone(x, y) ==
    IF x * x + y * y <= 100 THEN NoAngle
    ELSE floorTenth(rotateFromTop(toDegrees(y, x)))

calculateAngle(x, y) ==
    IF x = 0 /\ y = 0 THEN NoAngle
    ELSE floorTenth(rotateFromTop(toDegrees(y, x)))

\* getDirection rounding to the nearest multiple of 45 degrees instead of
\* taking the floor (a variant C19 must tell apart from the code)
getDirectionNearest(angle) ==
    IF angle = NoAngle THEN NONE
    ELSE LET direction == (angle + 225) \div DEGREES_PER_SECTOR
         IN  IF direction >= DIRECTION_SECTORS THEN 0 ELSE direction

getDirection(angle) ==
    IF angle = NoAngle THEN NONE
    ELSE LET direction == angle \div DEGREES_PER_SECTOR
         IN  IF direction >= DIRECTION_SECTORS THEN 0 ELSE direction

\* std::sin / std::cos of the arc-centre angles (k*45 + 22.5 degrees), in
\* thousandths; -225 is the angle the code computes for direction -1.
sinMilli(a) ==
    CASE a = 225 -> 383 [] a = 675 -> 924 [] a = 1125 -> 924 [] a = 1575 -> 383
      [] a = 2025 -> -383 [] a = 2475 -> -924 [] a = 2925 -> -924 [] a = 3375 -> -383
      [] a = -225 -> -383

cosMilli(a) ==
    CASE a = 225 -> 924 [] a = 675 -> 383 [] a = 1125 -> -383 [] a = 1575 -> -924
      [] a = 2025 -> -924 [] a = 2475 -> -383 [] a = 2925 -> 383 [] a = 3375 -> 924
      [] a = -225 -> 924

\* centre angle of a direction's arc, as computed at ControllerMapper.cpp
\* 1181-1182, 1202-1209 and 1234-1238
arcCenterAngle(direction) ==
    LET a == direction * DEGREES_PER_SECTOR + 225
    IN  IF a >= 3600 THEN a - 3600 ELSE a

\* getDirectionArcCenter with X = cos(angle), Y = sin(angle), the
\* counter-clockwise convention (a variant C21 must tell apart from the code)
getDirectionArcCenterFromRight(direction) ==
    IF direction < 0 \/ direction >= DIRECTION_SECTORS THEN <<0, 0>>
    ELSE << cosMilli(arcCenterAngle(direction)), sinMilli(arcCenterAngle(direction)) >>

getDirectionArcCenter(direction) ==
    IF direction < 0 \/ direction >= DIRECTION_SECTORS THEN <<0, 0>>
    ELSE << sinMilli(arcCenterAngle(direction)), cosMilli(arcCenterAngle(direction)) >>

absDiff(a, b) == IF a >= b THEN a - b ELSE b - a

\* checkPointerLock locking onto the sector the stick is in (a variant C37
\* must tell apart from the code)
checkPointerLockOntoCurrent(heldDirection, currentDirection, currentAngle) ==
    IF heldDirection < 0 \/ currentDirection < 0
    THEN [ok |-> FALSE, lockedDirection |-> NONE]
    ELSE [ok |-> TRUE, lockedDirection |-> currentDirection]

\* checkPointerLock taking the neighbours of the held direction itself as
\* the candidates (a variant C16 must tell apart from the code)
checkPointerLockAroundHeld(heldDirection, currentDirection, currentAngle) ==
    IF heldDirection < 0 \/ currentDirection < 0
    THEN [ok |-> FALSE, lockedDirection |-> NONE]
    ELSE LET leftAdjacent == (heldDirection - 1 + 8) % 8
             rightAdjacent == (heldDirection + 1) % 8
             d1 == absDiff(currentAngle, arcCenterAngle(leftAdjacent))
             angleDiffToLeft == IF d1 > 1800 THEN 3600 - d1 ELSE d1
             d2 == absDiff(currentAngle, arcCenterAngle(rightAdjacent))
             angleDiffToRight == IF d2 > 1800 THEN 3600 - d2 ELSE d2
         IN  [ok |-> TRUE,
              lockedDirection |-> IF angleDiffToLeft < angleDiffToRight
                                  THEN leftAdjacent ELSE rightAdjacent]

\* checkPointerLock comparing the plain differences |angle - centre|
\* without folding those above 180 degrees (a variant C17 must tell apart
\* from the code)
checkPointerLockNoFold(heldDirection, currentDirection, currentAngle) ==
    IF heldDirection < 0 \/ currentDirection < 0
    THEN [ok |-> FALSE, lockedDirection |-> NONE]
    ELSE LET oppositeDirection == (heldDirection + 4) % 8
             leftAdjacent == (oppositeDirection - 1 + 8) % 8
             rightAdjacent == (oppositeDirection + 1) % 8
             angleDiffToLeft == absDiff(currentAngle, arcCenterAngle(leftAdjacent))
             angleDiffToRight == absDiff(currentAngle, arcCenterAngle(rightAdjacent))
         IN  [ok |-> TRUE,
              lockedDirection |-> IF angleDiffToLeft < angleDiffToRight
                                  THEN leftAdjacent ELSE rightAdjacent]

\* checkPointerLock refusing a lock while the stick is still in the held
\* sector (a variant the amended C7 must tell apart from the code)
checkPointerLockOutsideHeld(heldDirection, currentDirection, currentAngle) ==
    IF heldDirection < 0 \/ currentDirection < 0 \/ currentDirection = heldDirection
    THEN [ok |-> FALSE, lockedDirection |-> NONE]
    ELSE LET oppositeDirection == (heldDirection + 4) % 8
             leftAdjacent == (oppositeDirection - 1 + 8) % 8
             rightAdjacent == (oppositeDirection + 1) % 8
             d1 == absDiff(currentAngle, arcCenterAngle(leftAdjacent))
             angleDiffToLeft == IF d1 > 1800 THEN 3600 - d1 ELSE d1
             d2 == absDiff(currentAngle, arcCenterAngle(rightAdjacent))
             angleDiffToRight == IF d2 > 1800 THEN 3600 - d2 ELSE d2
         IN  [ok |-> TRUE,
              lockedDirection |-> IF angleDiffToLeft < angleDiffToRight
                                  THEN leftAdjacent ELSE rightAdjacent]

\* checkPointerLock refusing only a missing held direction, not a missing
\* current direction (a variant C28 must tell apart from the code)
checkPointerLockHeldOnly(heldDirection, currentDirection, currentAngle) ==
    IF heldDirection < 0
    THEN [ok |-> FALSE, lockedDirection |-> NONE]
    ELSE LET oppositeDirection == (heldDirection + 4) % 8
             leftAdjacent == (oppositeDirection - 1 + 8) % 8
             rightAdjacent == (oppositeDirection + 1) % 8
             d1 == absDiff(currentAngle, arcCenterAngle(leftAdjacent))
             angleDiffToLeft == IF d1 > 1800 THEN 3600 - d1 ELSE d1
             d2 == absDiff(currentAngle, arcCenterAngle(rightAdjacent))
             angleDiffToRight == IF d2 > 1800 THEN 3600 - d2 ELSE d2
         IN  [ok |-> TRUE,
              lockedDirection |-> IF angleDiffToLeft < angleDiffToRight
                                  THEN leftAdjacent ELSE rightAdjacent]

\* checkPointerLock giving the left neighbour when the two differences are
\* equal (a variant the amended C27 must tell apart from the code)
checkPointerLockTiesLeft(heldDirection, currentDirection, currentAngle) ==
    IF heldDirection < 0 \/ currentDirection < 0
    THEN [ok |-> FALSE, lockedDirection |-> NONE]
    ELSE LET oppositeDirection == (heldDirection + 4) % 8
             leftAdjacent == (oppositeDirection - 1 + 8) % 8
             rightAdjacent == (oppositeDirection + 1) % 8
             d1 == absDiff(currentAngle, arcCenterAngle(leftAdjacent))
             angleDiffToLeft == IF d1 > 1800 THEN 3600 - d1 ELSE d1
             d2 == absDiff(currentAngle, arcCenterAngle(rightAdjacent))
             angleDiffToRight == IF d2 > 1800 THEN 3600 - d2 ELSE d2
         IN  [ok |-> TRUE,
              lockedDirection |-> IF angleDiffToLeft <= angleDiffToRight
                                  THEN leftAdjacent ELSE rightAdjacent]

\* result: ok = the bool returned, lockedDirection = the out-parameter
\* (not written, and not read by the caller, when ok is FALSE)
checkPointerLock(heldDirection, currentDirection, currentAngle) ==
    IF heldDirection < 0 \/ currentDirection < 0
    THEN [ok |-> FALSE, lockedDirection |-> NONE]
    ELSE LET oppositeDirection == (heldDirection + 4) % 8
             leftAdjacent == (oppositeDirection - 1 + 8) % 8
             rightAdjacent == (oppositeDirection + 1) % 8
             leftAngle == arcCenterAngle(leftAdjacent)
             rightAngle == arcCenterAngle(rightAdjacent)
             d1 == absDiff(currentAngle, leftAngle)
             angleDiffToLeft == IF d1 > 1800 THEN 3600 - d1 ELSE d1
             d2 == absDiff(currentAngle, rightAngle)
             angleDiffToRight == IF d2 > 1800 THEN 3600 - d2 ELSE d2
         IN  [ok |-> TRUE,
              lockedDirection |-> IF angleDiffToLeft < angleDiffToRight
                                  THEN leftAdjacent ELSE rightAdjacent]

\* std::sqrt on thousandths-squared: the largest r with r*r <= n
RECURSIVE sqrtSearch(_, _, _)
sqrtSearch(n, lo, hi) ==
    IF lo >= hi THEN lo
    ELSE LET mid == (lo + hi + 1) \div 2
         IN  IF mid * mid <= n THEN sqrtSearch(n, mid, hi) ELSE sqrtSearch(n, lo, mid - 1)

sqrtMilli(n) == sqrtSearch(n, 0, 4000)

\* path direction vector from the held to the locked direction
\* (ControllerMapper.cpp 1239-1240)
pathVector(heldAngle, endAngle) ==
    << sinMilli(endAngle) - sinMilli(heldAngle), cosMilli(endAngle) - cosMilli(heldAngle) >>

\* normalizePath leaving the path vector at its full length (a variant C22
\* must tell apart from the code)
normalizePathSkipped(path, pathLength) == << path[1], path[2], pathLength >>

\* the path vector divided by its length when the length is positive
\* (1244-1247); the third component carries pathLength along
normalizePath(path, pathLength) ==
    IF pathLength > 0
    THEN << (path[1] * 1000) \div pathLength, (path[2] * 1000) \div pathLength, pathLength >>
    ELSE << path[1], path[2], pathLength >>

\* pathLength = sqrt(pathX * pathX + pathY * pathY) (1243)
unitPath(path) == normalizePath(path, sqrtMilli(path[1] * path[1] + path[2] * path[2]))

\* clampToPath without the upper clamp (a variant C18 must tell apart from
\* the code)
clampToPathFromBelow(t, pathLength) == IF t < 0 THEN 0 ELSE t

\* t clamped to [0, pathLength] (1263-1264)
clampToPath(t, pathLength) ==
    IF t < 0 THEN (IF 0 > pathLength THEN pathLength ELSE 0)
    ELSE IF t > pathLength THEN pathLength ELSE t

\* lockedX, lockedY = held + t * path (1267-1268)
pointAlongPath(held, unit, t) ==
    << held[1] + (t * unit[1]) \div 1000, held[2] + (t * unit[2]) \div 1000 >>

\* the dot product of (current - held) with the unit path, clamped, and the
\* point it designates (1256-1268)
projectOntoPath(held, unit, currentX, currentY) ==
    pointAlongPath(held, unit,
        clampToPath(((currentX - held[1]) * unit[1] + (currentY - held[2]) * unit[2]) \div 1000,
                    unit[3]))

\* result: << lockedX, lockedY >>
calculateLockedPosition(heldDirection, lockedDirection, currentX, currentY) ==
    projectOntoPath(getDirectionArcCenter(heldDirection),
                    unitPath(pathVector(arcCenterAngle(heldDirection),
                                        arcCenterAngle(lockedDirection))),
                    currentX, currentY)

VARIABLES
    leftTouchActive, rightTouchActive,
    currentLHeldDirection, currentRHeldDirection,
    leftPointerLocked, rightPointerLocked,
    leftLockedDirection, rightLockedDirection,
    prevL1, prevR1, prevL2, prevR2, prevL3, prevR3,
    l3TouchActive, r3TouchActive,
    leftStick, rightStick,
    currentLeftKey, currentRightKey,
    mouseButtonPressed, alternateFrame,
    currentMode,
    running,
    sent,
    invoked,
    probe

\* probe holds one call of a geometry function examined on its own (its
\* arguments and, once applied, its result); the touch-mode handler never
\* touches it.
NoCall == [ fn |-> "none", done |-> TRUE ]

vars ==
    << leftTouchActive, rightTouchActive, currentLHeldDirection, currentRHeldDirection,
       leftPointerLocked, rightPointerLocked, leftLockedDirection, rightLockedDirection,
       prevL1, prevR1, prevL2, prevR2, prevL3, prevR3, l3TouchActive, r3TouchActive,
       leftStick, rightStick, currentLeftKey, currentRightKey, mouseButtonPressed, alternateFrame,
       currentMode, running, sent, invoked, probe >>

\* the members as the constructor leaves them
Constructed ==
    /\ leftTouchActive = FALSE /\ rightTouchActive = FALSE
    /\ currentLHeldDirection = NONE /\ currentRHeldDirection = NONE
    /\ leftPointerLocked = FALSE /\ rightPointerLocked = FALSE
    /\ leftLockedDirection = NONE /\ rightLockedDirection = NONE
    /\ prevL1 = FALSE /\ prevR1 = FALSE
    /\ prevL2 = FALSE /\ prevR2 = FALSE
    /\ prevL3 = FALSE /\ prevR3 = FALSE
    /\ l3TouchActive = FALSE /\ r3TouchActive = FALSE
    /\ leftStick = <<0, 0>> /\ rightStick = <<0, 0>>
    /\ currentLeftKey = "" /\ currentRightKey = ""
    /\ mouseButtonPressed = FALSE /\ alternateFrame = FALSE
    /\ running = TRUE
    /\ sent = <<>> /\ invoked = <<>>

\* ControllerMapper app(InputMode::Touch), before the first cycle of run()
Init == Constructed /\ currentMode = "Touch" /\ probe = NoCall

\* One polled controller state: the arguments of handleTouchControl.
AllInputs ==
    [ l1 : BOOLEAN, r1 : BOOLEAN, l2 : BOOLEAN, r2 : BOOLEAN, l3 : BOOLEAN, r3 : BOOLEAN,
      left : Sticks, right : Sticks ]

\* The polled states the model draws from. To keep the product of the two
\* sides explorable, in every cycle at least one side is at rest apart from
\* its bumper: its trigger and stick press are up and its stick is centred.
\* The other side takes every combination of its three buttons and every
\* sampled stick position; the side at rest may change from cycle to cycle.
Inputs ==
    { in \in AllInputs : \/ (~in.r2 /\ ~in.r3 /\ in.right = <<0, 0>>)
                         \/ (~in.l2 /\ ~in.l3 /\ in.left = <<0, 0>>) }

\* The mutable members handleTouchControl works on, as one record that the
\* blocks of the handler pass along; out is the list of injector calls so far.
Members ==
    [ leftTouchActive |-> leftTouchActive, rightTouchActive |-> rightTouchActive,
      currentLHeldDirection |-> currentLHeldDirection,
      currentRHeldDirection |-> currentRHeldDirection,
      leftPointerLocked |-> leftPointerLocked, rightPointerLocked |-> rightPointerLocked,
      leftLockedDirection |-> leftLockedDirection,
      rightLockedDirection |-> rightLockedDirection,
      l3TouchActive |-> l3TouchActive, r3TouchActive |-> r3TouchActive,
      out |-> <<>>, calls |-> <<>> ]

createTouchInfo(touchId, stickX, stickY, isDown, isUp) ==
    [ id |-> touchId, x |-> stickX, y |-> stickY,
      opt |-> IF isDown THEN "PointerDown" ELSE IF isUp THEN "PointerUp" ELSE "Update" ]

\* sendTouch with the injector initialised: one InjectTouchInput call
\* carrying one touch info. Each entry of the log names the function that
\* issued the call.
sendTouch(out, touchId, stickX, stickY, isDown, isUp) ==
    Append(out, [ by |-> "sendTouch",
                  touches |-> << createTouchInfo(touchId, stickX, stickY, isDown, isUp) >> ])

\* offsetStick * cos / sin of 0, 45, ..., 315 degrees, with
\* offsetStick = X_PATTERN_RADIUS_PIXELS / overlayStickRadius = 125 / 150
PalmOffsets ==
    << <<833, 0>>, <<589, 589>>, <<0, 833>>, <<-589, 589>>,
       <<-833, 0>>, <<-589, -589>>, <<0, -833>>, <<589, -589>> >>

sendPalmTouch(out, centerX, centerY, centerTouchId, cornerStartId, isDown, isUp) ==
    LET touches ==
            << createTouchInfo(centerTouchId, centerX, centerY, isDown, isUp) >> \o
            [ i \in 1..8 |->
                createTouchInfo(cornerStartId + (i - 1), centerX + PalmOffsets[i][1],
                                centerY + PalmOffsets[i][2], isDown, isUp) ]
    IN  IF isDown \/ isUp
        THEN out \o [ i \in 1..9 |-> [ by |-> "sendPalmTouch", touches |-> << touches[i] >> ] ]
        ELSE Append(out, [ by |-> "sendPalmTouch", touches |-> touches ])

sendBothTouchesIfActive(s, leftX, leftY, rightX, rightY, leftLockedX, leftLockedY, leftLocked, rightLockedX, rightLockedY, rightLocked) ==
    IF ~s.leftTouchActive \/ ~s.rightTouchActive THEN s.out
    ELSE LET leftSendX == IF leftLocked THEN leftLockedX ELSE leftX
             leftSendY == IF leftLocked THEN leftLockedY ELSE leftY
             rightSendX == IF rightLocked THEN rightLockedX ELSE rightX
             rightSendY == IF rightLocked THEN rightLockedY ELSE rightY
         IN  Append(s.out,
                    [ by |-> "sendMultipleTouches",
                      touches |-> << createTouchInfo(0, leftSendX, leftSendY, FALSE, FALSE),
                                     createTouchInfo(1, rightSendX, rightSendY, FALSE, FALSE) >> ])

\* one invocation of checkPointerLock / calculateLockedPosition, with the
\* direction arguments it was given, the function it was made from and the
\* touch (0 left, 1 right) it was made for
checkPointerLockCall(calls, from, touchId, heldDirection, currentDirection) ==
    Append(calls, [ fn |-> "checkPointerLock", from |-> from, touchId |-> touchId,
                    heldDirection |-> heldDirection, currentDirection |-> currentDirection ])

calculateLockedPositionCall(calls, from, touchId, heldDirection, lockedDirection) ==
    Append(calls, [ fn |-> "calculateLockedPosition", from |-> from, touchId |-> touchId,
                    heldDirection |-> heldDirection, lockedDirection |-> lockedDirection ])

\* handleTouchMovementUpdate checking for a lock whenever the trigger is
\* held, without asking for a held direction first (a variant the amended
\* C24 must tell apart from the code)
handleTouchMovementUpdateUnguarded(touchId, touchActive, bumperPressed, stickPressPressed, heldDirection, lockedState, lockedDirection, currentX, currentY, currentAngle, currentDirection, skipIfOtherActive, out, calls) ==
    IF ~touchActive \/ (~bumperPressed /\ ~stickPressPressed)
    THEN [lockedState |-> lockedState, lockedDirection |-> lockedDirection, out |-> out,
          calls |-> calls]
    ELSE
      LET shouldCheckLocking == stickPressPressed
          lock == checkPointerLock(heldDirection, currentDirection, currentAngle)
          checked == IF shouldCheckLocking
                     THEN checkPointerLockCall(calls, "handleTouchMovementUpdate", touchId,
                                               heldDirection, currentDirection)
                     ELSE calls
      IN  IF shouldCheckLocking /\ lock.ok
          THEN LET newDir == IF ~lockedState \/ lockedDirection # lock.lockedDirection
                             THEN lock.lockedDirection ELSE lockedDirection
                   locked == calculateLockedPosition(heldDirection, newDir, currentX, currentY)
               IN  [lockedState |-> TRUE, lockedDirection |-> newDir,
                    out |-> IF ~skipIfOtherActive
                            THEN sendTouch(out, touchId, locked[1], locked[2], FALSE, FALSE)
                            ELSE out,
                    calls |-> calculateLockedPositionCall(checked,
                                  "handleTouchMovementUpdate", touchId, heldDirection, newDir)]
          ELSE [lockedState |-> FALSE,
                lockedDirection |-> IF lockedState THEN NONE ELSE lockedDirection,
                out |-> IF ~skipIfOtherActive
                        THEN sendTouch(out, touchId, currentX, currentY, FALSE, FALSE)
                        ELSE out,
                calls |-> checked]

\* result: the reference parameters it may write (lockedState,
\* lockedDirection), the injector calls and the invocations of
\* checkPointerLock and calculateLockedPosition
handleTouchMovementUpdate(touchId, touchActive, bumperPressed, stickPressPressed, heldDirection, lockedState, lockedDirection, currentX, currentY, currentAngle, currentDirection, skipIfOtherActive, out, calls) ==
    IF ~touchActive \/ (~bumperPressed /\ ~stickPressPressed)
    THEN [lockedState |-> lockedState, lockedDirection |-> lockedDirection, out |-> out,
          calls |-> calls]
    ELSE
      LET shouldCheckLocking == stickPressPressed /\ heldDirection >= 0
          lock == checkPointerLock(heldDirection, currentDirection, currentAngle)
          checked == IF shouldCheckLocking
                     THEN checkPointerLockCall(calls, "handleTouchMovementUpdate", touchId,
                                               heldDirection, currentDirection)
                     ELSE calls
      IN  IF shouldCheckLocking /\ lock.ok
          THEN LET newDir == IF ~lockedState \/ lockedDirection # lock.lockedDirection
                             THEN lock.lockedDirection ELSE lockedDirection
                   locked == calculateLockedPosition(heldDirection, newDir, currentX, currentY)
               IN  [lockedState |-> TRUE, lockedDirection |-> newDir,
                    out |-> IF ~skipIfOtherActive
                            THEN sendTouch(out, touchId, locked[1], locked[2], FALSE, FALSE)
                            ELSE out,
                    calls |-> calculateLockedPositionCall(checked,
                                  "handleTouchMovementUpdate", touchId, heldDirection, newDir)]
          ELSE [lockedState |-> FALSE,
                lockedDirection |-> IF lockedState THEN NONE ELSE lockedDirection,
                out |-> IF ~skipIfOtherActive
                        THEN sendTouch(out, touchId, currentX, currentY, FALSE, FALSE)
                        ELSE out,
                calls |-> checked]

\* leftTriggerEdges with the L2 release forgetting to release the lock (a
\* variant C1 must tell apart from the code)
leftTriggerEdgesKeepLock(s, in) ==
    LET l2Pressed == in.l2 /\ ~prevL2
        l2Released == ~in.l2 /\ prevL2
        lDirection == getDirection(calculateAngle(in.left[1], in.left[2]))
        a == IF l2Pressed
             THEN [s EXCEPT !.currentLHeldDirection = lDirection,
                            !.leftTouchActive = TRUE,
                            !.out = sendTouch(@, 0, in.left[1], in.left[2], TRUE, FALSE)]
             ELSE s
    IN  IF l2Released
        THEN [a EXCEPT !.currentLHeldDirection = NONE,
                       !.out = IF a.leftTouchActive
                               THEN sendTouch(@, 0, in.left[1], in.left[2], FALSE, TRUE)
                               ELSE @,
                       !.leftTouchActive = FALSE]
        ELSE a

\* leftTriggerEdges with the touch-up of the L2 release sent whether the
\* session is open or not (a variant C35 must tell apart from the code)
leftTriggerEdgesAlwaysUp(s, in) ==
    LET l2Pressed == in.l2 /\ ~prevL2
        l2Released == ~in.l2 /\ prevL2
        lDirection == getDirection(calculateAngle(in.left[1], in.left[2]))
        a == IF l2Pressed
             THEN [s EXCEPT !.currentLHeldDirection = lDirection,
                            !.leftTouchActive = TRUE,
                            !.out = sendTouch(@, 0, in.left[1], in.left[2], TRUE, FALSE)]
             ELSE s
    IN  IF l2Released
        THEN [a EXCEPT !.leftPointerLocked = FALSE,
                       !.leftLockedDirection = NONE,
                       !.currentLHeldDirection = NONE,
                       !.out = sendTouch(@, 0, in.left[1], in.left[2], FALSE, TRUE),
                       !.leftTouchActive = FALSE]
        ELSE a

\* leftTriggerEdges with the L2 release clearing the lock and leaving the
\* locked direction (a variant C36 must tell apart from the code)
leftTriggerEdgesKeepEndpoint(s, in) ==
    LET l2Pressed == in.l2 /\ ~prevL2
        l2Released == ~in.l2 /\ prevL2
        lDirection == getDirection(calculateAngle(in.left[1], in.left[2]))
        a == IF l2Pressed
             THEN [s EXCEPT !.currentLHeldDirection = lDirection,
                            !.leftTouchActive = TRUE,
                            !.out = sendTouch(@, 0, in.left[1], in.left[2], TRUE, FALSE)]
             ELSE s
    IN  IF l2Released
        THEN [a EXCEPT !.leftPointerLocked = FALSE,
                       !.currentLHeldDirection = NONE,
                       !.out = IF a.leftTouchActive
                               THEN sendTouch(@, 0, in.left[1], in.left[2], FALSE, TRUE)
                               ELSE @,
                       !.leftTouchActive = FALSE]
        ELSE a

\* L2 press / release edges (TouchMode.cpp 674-690)
leftTriggerEdges(s, in) ==
    LET l2Pressed == in.l2 /\ ~prevL2
        l2Released == ~in.l2 /\ prevL2
        lDirection == getDirection(calculateAngle(in.left[1], in.left[2]))
        a == IF l2Pressed
             THEN [s EXCEPT !.currentLHeldDirection = lDirection,
                            !.leftTouchActive = TRUE,
                            !.out = sendTouch(@, 0, in.left[1], in.left[2], TRUE, FALSE)]
             ELSE s
    IN  IF l2Released
        THEN [a EXCEPT !.leftPointerLocked = FALSE,
                       !.leftLockedDirection = NONE,
                       !.currentLHeldDirection = NONE,
                       !.out = IF a.leftTouchActive
                               THEN sendTouch(@, 0, in.left[1], in.left[2], FALSE, TRUE)
                               ELSE @,
                       !.leftTouchActive = FALSE]
        ELSE a

\* R2 press / release edges (TouchMode.cpp 693-709)
rightTriggerEdges(s, in) ==
    LET r2Pressed == in.r2 /\ ~prevR2
        r2Released == ~in.r2 /\ prevR2
        rDirection == getDirection(calculateAngle(in.right[1], in.right[2]))
        a == IF r2Pressed
             THEN [s EXCEPT !.currentRHeldDirection = rDirection,
                            !.rightTouchActive = TRUE,
                            !.out = sendTouch(@, 1, in.right[1], in.right[2], TRUE, FALSE)]
             ELSE s
    IN  IF r2Released
        THEN [a EXCEPT !.rightPointerLocked = FALSE,
                       !.rightLockedDirection = NONE,
                       !.currentRHeldDirection = NONE,
                       !.out = IF a.rightTouchActive
                               THEN sendTouch(@, 1, in.right[1], in.right[2], FALSE, TRUE)
                               ELSE @,
                       !.rightTouchActive = FALSE]
        ELSE a

\* leftMovementUpdate leaving the lock as it was whenever the right
\* session is open, so that the whole update (not only the send) is skipped
\* (a variant C12 must tell apart from the code)
leftMovementUpdateUnlessOther(s, in, bumperPressed) ==
    IF s.rightTouchActive THEN s
    ELSE LET lAngle == calculateAngle(in.left[1], in.left[2])
             r == handleTouchMovementUpdate(0, s.leftTouchActive, bumperPressed, in.l2,
                      s.currentLHeldDirection, s.leftPointerLocked, s.leftLockedDirection,
                      in.left[1], in.left[2], lAngle, getDirection(lAngle),
                      s.rightTouchActive, s.out, s.calls)
         IN  [s EXCEPT !.leftPointerLocked = r.lockedState,
                       !.leftLockedDirection = r.lockedDirection,
                       !.out = r.out, !.calls = r.calls]

\* leftMovementUpdate capturing the stick's sector anew on every update (a
\* variant C38 must tell apart from the code)
leftMovementUpdateRecapturing(s, in, bumperPressed) ==
    LET lAngle == calculateAngle(in.left[1], in.left[2])
        r == handleTouchMovementUpdate(0, s.leftTouchActive, bumperPressed, in.l2,
                 s.currentLHeldDirection, s.leftPointerLocked, s.leftLockedDirection,
                 in.left[1], in.left[2], lAngle, getDirection(lAngle),
                 s.rightTouchActive, s.out, s.calls)
    IN  [s EXCEPT !.leftPointerLocked = r.lockedState,
                  !.leftLockedDirection = r.lockedDirection,
                  !.currentLHeldDirection = getDirection(lAngle),
                  !.out = r.out, !.calls = r.calls]

\* The call of handleTouchMovementUpdate for touch 0 with its reference
\* arguments bound to the left members (TouchMode.cpp 718-721, 732-735).
leftMovementUpdate(s, in, bumperPressed) ==
    LET lAngle == calculateAngle(in.left[1], in.left[2])
        r == handleTouchMovementUpdate(0, s.leftTouchActive, bumperPressed, in.l2,
                 s.currentLHeldDirection, s.leftPointerLocked, s.leftLockedDirection,
                 in.left[1], in.left[2], lAngle, getDirection(lAngle),
                 s.rightTouchActive, s.out, s.calls)
    IN  [s EXCEPT !.leftPointerLocked = r.lockedState,
                  !.leftLockedDirection = r.lockedDirection,
                  !.out = r.out, !.calls = r.calls]

\* The same for touch 1 (TouchMode.cpp 746-749, 760-763).
rightMovementUpdate(s, in, bumperPressed) ==
    LET rAngle == calculateAngle(in.right[1], in.right[2])
        r == handleTouchMovementUpdate(1, s.rightTouchActive, bumperPressed, in.r2,
                 s.currentRHeldDirection, s.rightPointerLocked, s.rightLockedDirection,
                 in.right[1], in.right[2], rAngle, getDirection(rAngle),
                 s.leftTouchActive, s.out, s.calls)
    IN  [s EXCEPT !.rightPointerLocked = r.lockedState,
                  !.rightLockedDirection = r.lockedDirection,
                  !.out = r.out, !.calls = r.calls]

\* leftBumperHandling without the touch-up on the L1 release edge (a variant
\* C34 must tell apart from the code)
leftBumperHandlingNoRelease(s, in) ==
    IF s.l3TouchActive THEN s
    ELSE
      LET l1Pressed == in.l1 /\ ~prevL1
          a == IF l1Pressed /\ ~s.leftTouchActive
               THEN [s EXCEPT !.leftTouchActive = TRUE,
                              !.out = sendTouch(@, 0, in.left[1], in.left[2], TRUE, FALSE)]
               ELSE IF s.leftTouchActive /\ in.l1
                    THEN leftMovementUpdate(s, in, in.l1)
                    ELSE s
      IN  IF a.leftTouchActive /\ in.l2
          THEN leftMovementUpdate(a, in, in.l1 \/ in.l2)
          ELSE a

\* L1 handling, disabled while the L3 pattern is active (TouchMode.cpp 712-737)
leftBumperHandling(s, in) ==
    IF s.l3TouchActive THEN s
    ELSE
      LET l1Pressed == in.l1 /\ ~prevL1
          l1Released == ~in.l1 /\ prevL1
          a == IF l1Pressed /\ ~s.leftTouchActive
               THEN [s EXCEPT !.leftTouchActive = TRUE,
                              !.out = sendTouch(@, 0, in.left[1], in.left[2], TRUE, FALSE)]
               ELSE IF s.leftTouchActive /\ in.l1
                    THEN leftMovementUpdate(s, in, in.l1)
                    ELSE s
          b == IF l1Released /\ a.leftTouchActive
               THEN [a EXCEPT !.out = sendTouch(@, 0, in.left[1], in.left[2], FALSE, TRUE),
                              !.leftTouchActive = FALSE]
               ELSE a
      IN  IF b.leftTouchActive /\ in.l2
          THEN leftMovementUpdate(b, in, in.l1 \/ in.l2)
          ELSE b

\* R1 handling, disabled while the R3 pattern is active (TouchMode.cpp 740-765)
rightBumperHandling(s, in) ==
    IF s.r3TouchActive THEN s
    ELSE
      LET r1Pressed == in.r1 /\ ~prevR1
          r1Released == ~in.r1 /\ prevR1
          a == IF r1Pressed /\ ~s.rightTouchActive
               THEN [s EXCEPT !.rightTouchActive = TRUE,
                              !.out = sendTouch(@, 1, in.right[1], in.right[2], TRUE, FALSE)]
               ELSE IF s.rightTouchActive /\ in.r1
                    THEN rightMovementUpdate(s, in, in.r1)
                    ELSE s
          b == IF r1Released /\ a.rightTouchActive
               THEN [a EXCEPT !.out = sendTouch(@, 1, in.right[1], in.right[2], FALSE, TRUE),
                              !.rightTouchActive = FALSE]
               ELSE a
      IN  IF b.rightTouchActive /\ in.r2
          THEN rightMovementUpdate(b, in, in.r1 \/ in.r2)
          ELSE b

\* sendBothTogether sending the raw stick positions whatever the locks
\* (a variant C14 must tell apart from the code)
sendBothTogetherRaw(s, in) ==
    IF s.leftTouchActive /\ s.rightTouchActive
    THEN [s EXCEPT !.out = sendBothTouchesIfActive(s, in.left[1], in.left[2],
                                 in.right[1], in.right[2],
                                 in.left[1], in.left[2], s.leftPointerLocked,
                                 in.right[1], in.right[2], s.rightPointerLocked)]
    ELSE s

\* Both touches sent together when both are active (TouchMode.cpp 769-792)
sendBothTogether(s, in) ==
    IF s.leftTouchActive /\ s.rightTouchActive
    THEN LET leftSend == IF s.leftPointerLocked /\ s.currentLHeldDirection >= 0
                         THEN calculateLockedPosition(s.currentLHeldDirection,
                                  s.leftLockedDirection, in.left[1], in.left[2])
                         ELSE in.left
             rightSend == IF s.rightPointerLocked /\ s.currentRHeldDirection >= 0
                          THEN calculateLockedPosition(s.currentRHeldDirection,
                                   s.rightLockedDirection, in.right[1], in.right[2])
                          ELSE in.right
             leftCalls == IF s.leftPointerLocked /\ s.currentLHeldDirection >= 0
                          THEN calculateLockedPositionCall(s.calls, "handleTouchControl", 0,
                                   s.currentLHeldDirection, s.leftLockedDirection)
                          ELSE s.calls
             bothCalls == IF s.rightPointerLocked /\ s.currentRHeldDirection >= 0
                          THEN calculateLockedPositionCall(leftCalls, "handleTouchControl", 1,
                                   s.currentRHeldDirection, s.rightLockedDirection)
                          ELSE leftCalls
         IN  [s EXCEPT !.out = sendBothTouchesIfActive(s, leftSend[1], leftSend[2],
                                   rightSend[1], rightSend[2],
                                   leftSend[1], leftSend[2], s.leftPointerLocked,
                                   rightSend[1], rightSend[2], s.rightPointerLocked),
                       !.calls = bothCalls]
    ELSE s

\* updateTouchPointerPosition: the overlay's pointer of one side; the only
\* part of it kept is its invocation of calculateLockedPosition
\* (ControllerMapper.cpp 553-566)
updateTouchPointerPosition(calls, touchId, touchActive, pointerLocked, heldDirection, lockedDirection) ==
    IF touchActive /\ pointerLocked /\ heldDirection >= 0
    THEN calculateLockedPositionCall(calls, "updateTouchPointerPosition", touchId,
                                     heldDirection, lockedDirection)
    ELSE calls

\* updateOverlay, which run() calls after the mode's handler in the same
\* cycle (ControllerMapper.cpp 1672, 583-586)
updateOverlay(s) ==
    updateTouchPointerPosition(
        updateTouchPointerPosition(s.calls, 0, s.leftTouchActive, s.leftPointerLocked,
                                   s.currentLHeldDirection, s.leftLockedDirection),
        1, s.rightTouchActive, s.rightPointerLocked,
        s.currentRHeldDirection, s.rightLockedDirection)

\* leftStickPressHandling closing the single-touch session without
\* forgetting the held direction (a variant C30 must tell apart from the code)
leftStickPressHandlingKeepHeld(s, in) ==
    LET l3Pressed == in.l3 /\ ~prevL3
        l3Released == ~in.l3 /\ prevL3
        a == IF l3Pressed /\ ~s.l3TouchActive
             THEN LET r == IF s.leftTouchActive
                           THEN [s EXCEPT !.out = sendTouch(@, 0, in.left[1], in.left[2],
                                                            FALSE, TRUE),
                                          !.leftTouchActive = FALSE,
                                          !.leftPointerLocked = FALSE,
                                          !.leftLockedDirection = NONE]
                           ELSE s
                  IN  [r EXCEPT !.l3TouchActive = TRUE,
                                !.out = sendPalmTouch(@, in.left[1], in.left[2], 0, 2,
                                                      TRUE, FALSE)]
             ELSE s
        b == IF a.l3TouchActive /\ in.l3
             THEN [a EXCEPT !.out = sendPalmTouch(@, in.left[1], in.left[2], 0, 2,
                                                  FALSE, FALSE)]
             ELSE a
    IN  IF l3Released /\ b.l3TouchActive
        THEN [b EXCEPT !.out = sendPalmTouch(@, in.left[1], in.left[2], 0, 2, FALSE, TRUE),
                       !.l3TouchActive = FALSE]
        ELSE b

\* L3 pattern: centre touch 0, corners 2..9 (TouchMode.cpp 796-817)
leftStickPressHandling(s, in) ==
    LET l3Pressed == in.l3 /\ ~prevL3
        l3Released == ~in.l3 /\ prevL3
        a == IF l3Pressed /\ ~s.l3TouchActive
             THEN LET r == IF s.leftTouchActive
                           THEN [s EXCEPT !.out = sendTouch(@, 0, in.left[1], in.left[2],
                                                            FALSE, TRUE),
                                          !.leftTouchActive = FALSE,
                                          !.leftPointerLocked = FALSE,
                                          !.leftLockedDirection = NONE,
                                          !.currentLHeldDirection = NONE]
                           ELSE s
                  IN  [r EXCEPT !.l3TouchActive = TRUE,
                                !.out = sendPalmTouch(@, in.left[1], in.left[2], 0, 2,
                                                      TRUE, FALSE)]
             ELSE s
        b == IF a.l3TouchActive /\ in.l3
             THEN [a EXCEPT !.out = sendPalmTouch(@, in.left[1], in.left[2], 0, 2,
                                                  FALSE, FALSE)]
             ELSE a
    IN  IF l3Released /\ b.l3TouchActive
        THEN [b EXCEPT !.out = sendPalmTouch(@, in.left[1], in.left[2], 0, 2, FALSE, TRUE),
                       !.l3TouchActive = FALSE]
        ELSE b

\* R3 pattern: centre touch 1, corners 10..17 (TouchMode.cpp 828-849)
rightStickPressHandling(s, in) ==
    LET r3Pressed == in.r3 /\ ~prevR3
        r3Released == ~in.r3 /\ prevR3
        a == IF r3Pressed /\ ~s.r3TouchActive
             THEN LET r == IF s.rightTouchActive
                           THEN [s EXCEPT !.out = sendTouch(@, 1, in.right[1], in.right[2],
                                                            FALSE, TRUE),
                                          !.rightTouchActive = FALSE,
                                          !.rightPointerLocked = FALSE,
                                          !.rightLockedDirection = NONE,
                                          !.currentRHeldDirection = NONE]
                           ELSE s
                  IN  [r EXCEPT !.r3TouchActive = TRUE,
                                !.out = sendPalmTouch(@, in.right[1], in.right[2], 1, 10,
                                                      TRUE, FALSE)]
             ELSE s
        b == IF a.r3TouchActive /\ in.r3
             THEN [a EXCEPT !.out = sendPalmTouch(@, in.right[1], in.right[2], 1, 10,
                                                  FALSE, FALSE)]
             ELSE a
    IN  IF r3Released /\ b.r3TouchActive
        THEN [b EXCEPT !.out = sendPalmTouch(@, in.right[1], in.right[2], 1, 10, FALSE, TRUE),
                       !.r3TouchActive = FALSE]
        ELSE b

\* One cycle of run() in touch mode on the polled input in: the whole call of
\* handleTouchControl (TouchMode.cpp 637-865), its blocks run in source order,
\* each on the members as the previous one left them, and then updateOverlay
\* (ControllerMapper.cpp 1658-1672).
handleTouchControl(in) ==
    /\ running /\ currentMode = "Touch"
    /\ \E s1 \in {leftTriggerEdges(Members, in)} :
       \E s2 \in {rightTriggerEdges(s1, in)} :
       \E s3 \in {leftBumperHandling(s2, in)} :
       \E s4 \in {rightBumperHandling(s3, in)} :
       \E s5 \in {sendBothTogether(s4, in)} :
       \E s6 \in {leftStickPressHandling(s5, in)} :
       \E s \in {rightStickPressHandling(s6, in)} :
           /\ leftTouchActive' = s.leftTouchActive
           /\ rightTouchActive' = s.rightTouchActive
           /\ currentLHeldDirection' = s.currentLHeldDirection
           /\ currentRHeldDirection' = s.currentRHeldDirection
           /\ leftPointerLocked' = s.leftPointerLocked
           /\ rightPointerLocked' = s.rightPointerLocked
           /\ leftLockedDirection' = s.leftLockedDirection
           /\ rightLockedDirection' = s.rightLockedDirection
           /\ l3TouchActive' = s.l3TouchActive
           /\ r3TouchActive' = s.r3TouchActive
           /\ prevL1' = in.l1 /\ prevR1' = in.r1
           /\ prevL2' = in.l2 /\ prevR2' = in.r2
           /\ prevL3' = in.l3 /\ prevR3' = in.r3
           /\ leftStick' = in.left /\ rightStick' = in.right
           /\ sent' = s.out
           /\ invoked' = updateOverlay(s)
           /\ UNCHANGED << currentLeftKey, currentRightKey, mouseButtonPressed, alternateFrame,
                           currentMode, running, probe >>

Next == \E in \in Inputs : handleTouchControl(in)

Spec == Init /\ [][Next]_vars

\* getKeyCode: the virtual-key code of the digit keys, 0 for anything else
\* (KeyboardMode.cpp 5-15)
getKeyCode(key) ==
    CASE key = "1" -> 49 [] key = "2" -> 50 [] key = "3" -> 51 [] key = "4" -> 52
      [] key = "5" -> 53 [] key = "6" -> 54 [] key = "7" -> 55 [] key = "8" -> 56
      [] OTHER -> 0

\* sendKeyPress: one SendInput keyboard event, none for an unknown key
\* (KeyboardMode.cpp 17-31)
sendKeyPress(out, key, isDown) ==
    IF getKeyCode(key) = 0 THEN out
    ELSE Append(out, [ by |-> "simulateKeyPress", keyCode |-> getKeyCode(key),
                       isDown |-> isDown ])

\* sendMouseButton: one SendInput left-button event (MouseMode.cpp 27-32)
sendMouseButton(out, down) == Append(out, [ by |-> "sendMouseButton", down |-> down ])

\* the keys cleanup releases (ControllerMapper.cpp 1722-1729)
releaseKeys(out) ==
    sendKeyPress(IF currentLeftKey # "" THEN sendKeyPress(out, currentLeftKey, FALSE) ELSE out,
                 currentRightKey, FALSE)

\* the touch points cleanup releases (ControllerMapper.cpp 1732-1739)
releaseTouches(out) ==
    LET left == IF leftTouchActive THEN sendTouch(out, 0, 0, 0, FALSE, TRUE) ELSE out
    IN  IF rightTouchActive THEN sendTouch(left, 1, 0, 0, FALSE, TRUE) ELSE left

\* the mouse button cleanup releases (ControllerMapper.cpp 1742-1745)
releaseMouseButton(out) == IF mouseButtonPressed THEN sendMouseButton(out, FALSE) ELSE out

\* cleanup, after which run() returns (ControllerMapper.cpp 1720-1746,
\* called at 1543 and 1569)
cleanup ==
    /\ running
    /\ currentLeftKey' = "" /\ currentRightKey' = ""
    /\ leftTouchActive' = FALSE /\ rightTouchActive' = FALSE
    /\ mouseButtonPressed' = FALSE
    /\ sent' = releaseMouseButton(releaseTouches(releaseKeys(<<>>)))
    /\ invoked' = <<>>
    /\ running' = FALSE
    /\ UNCHANGED << currentLHeldDirection, currentRHeldDirection, leftPointerLocked,
                    rightPointerLocked, leftLockedDirection, rightLockedDirection,
                    prevL1, prevR1, prevL2, prevR2, prevL3, prevR3,
                    l3TouchActive, r3TouchActive, leftStick, rightStick,
                    alternateFrame, currentMode, probe >>

\* std::to_string on the small non-negative integers it is given
to_string(n) == ToString(n)

\* the key of a sector numbered from 0 (a variant C26 must tell apart from
\* the code)
sectorKeyFromZero(direction) == to_string(direction)

\* std::string newKey = std::to_string(direction + 1) (KeyboardMode.cpp 42, 68)
sectorKey(direction) == to_string(direction + 1)

\* old key released when there is one
releaseOwnKey(own, out) == IF own # "" THEN sendKeyPress(out, own, FALSE) ELSE out

\* handleStickKey without the check for the other side's key (a variant C39
\* must tell apart from the code)
handleStickKeyNoConflict(own, other, pressed, direction, out) ==
    IF pressed /\ direction # NONE
    THEN IF own # sectorKey(direction)
         THEN [ own |-> sectorKey(direction),
                out |-> sendKeyPress(releaseOwnKey(own, out), sectorKey(direction), TRUE),
                returned |-> FALSE ]
         ELSE [ own |-> own, out |-> out, returned |-> FALSE ]
    ELSE [ own |-> "", out |-> releaseOwnKey(own, out), returned |-> FALSE ]

\* One side's block of handleKeyboardControl (KeyboardMode.cpp 40-63 for the
\* left side, 66-88 for the right): own is the side's current key, other the
\* other side's.  returned tells that the block left the function through
\* the return of its conflict branch.
handleStickKey(own, other, pressed, direction, out) ==
    IF pressed /\ direction # NONE
    THEN IF sectorKey(direction) = other /\ other # ""
         THEN [ own |-> "", out |-> releaseOwnKey(own, out), returned |-> TRUE ]
         ELSE IF own # sectorKey(direction)
              THEN [ own |-> sectorKey(direction),
                     out |-> sendKeyPress(releaseOwnKey(own, out), sectorKey(direction), TRUE),
                     returned |-> FALSE ]
              ELSE [ own |-> own, out |-> out, returned |-> FALSE ]
    ELSE [ own |-> "", out |-> releaseOwnKey(own, out), returned |-> FALSE ]

\* The stick positions of keyboard mode: the sampled positions and the arc
\* centres of the first sector, of the last one and of one in between, so
\* that the keys 1 and 8 occur and the two sticks can meet on a key.
KeyboardSticks == Sticks \cup { getDirectionArcCenter(d) : d \in {0, 3, DIRECTION_SECTORS - 1} }

\* The polled controller states of keyboard mode: the bumpers and the sticks.
KeyboardInputs ==
    [ l1 : BOOLEAN, r1 : BOOLEAN, left : KeyboardSticks, right : KeyboardSticks ]

\* One cycle of run() in keyboard mode: the whole call of
\* handleKeyboardControl (KeyboardMode.cpp 33-95) and then updateOverlay
\* (ControllerMapper.cpp 1658-1672).  The right block runs on the left key
\* as the left block left it, unless the left block returned.
handleKeyboardControl(in) ==
    /\ running /\ currentMode = "Keyboard"
    /\ \E l \in {handleStickKey(currentLeftKey, currentRightKey, in.l1,
                     getDirection(calculateAngle(in.left[1], in.left[2])), <<>>)} :
       \E r \in {IF l.returned
                 THEN [ own |-> currentRightKey, out |-> l.out, returned |-> TRUE ]
                 ELSE handleStickKey(currentRightKey, l.own, in.r1,
                          getDirection(calculateAngle(in.right[1], in.right[2])), l.out)} :
           /\ currentLeftKey' = l.own
           /\ currentRightKey' = r.own
           /\ sent' = r.out
    /\ leftStick' = in.left /\ rightStick' = in.right
    /\ invoked' = updateOverlay(Members)
    /\ UNCHANGED << leftTouchActive, rightTouchActive,
                    currentLHeldDirection, currentRHeldDirection, leftPointerLocked,
                    rightPointerLocked, leftLockedDirection, rightLockedDirection,
                    prevL1, prevR1, prevL2, prevR2, prevL3, prevR3,
                    l3TouchActive, r3TouchActive, mouseButtonPressed, alternateFrame,
                    currentMode, running, probe >>

\* ControllerMapper app(InputMode::Keyboard), before the first cycle of run()
KeyboardInit == Constructed /\ currentMode = "Keyboard" /\ probe = NoCall

\* keyboard mode until the program is stopped
KeyboardNext ==
    \/ \E in \in KeyboardInputs : handleKeyboardControl(in)
    \/ cleanup

KeyboardSpec == KeyboardInit /\ [][KeyboardNext]_vars

\* touch mode until the program is stopped
StopNext ==
    \/ \E in \in Inputs : handleTouchControl(in)
    \/ cleanup

StopSpec == Init /\ [][StopNext]_vars

\* moveMouseToCenter: SetCursorPos on the centre of the monitor
\* (MouseMode.cpp 5-10)
moveMouseToCenter(out) == Append(out, [ by |-> "moveMouseToCenter" ])

\* moveMouseToStickPosition: SetCursorPos on the point of the overlay the
\* stick position stands for (MouseMode.cpp 12-25)
moveMouseToStickPosition(out, stick) ==
    Append(out, [ by |-> "moveMouseToStickPosition", stickX |-> stick[1], stickY |-> stick[2] ])

\* a press edge taken on each bumper by itself (a variant C32 must tell
\* apart from the code)
pressEdgeOfEither(l1, r1) == (l1 /\ ~prevL1) \/ (r1 /\ ~prevR1)

\* anyButtonPressed && !prevAnyPressed (MouseMode.cpp 35-40)
pressEdge(l1, r1) == (l1 \/ r1) /\ ~(prevL1 \/ prevR1)

\* !anyButtonPressed && prevAnyPressed (MouseMode.cpp 35-47)
releaseEdge(l1, r1) == ~(l1 \/ r1) /\ (prevL1 \/ prevR1)

\* the button events of one cycle (MouseMode.cpp 39-52)
mouseButtonHandling(out, l1, r1) ==
    IF releaseEdge(l1, r1)
    THEN moveMouseToCenter(sendMouseButton(out, FALSE))
    ELSE IF pressEdge(l1, r1) THEN sendMouseButton(out, TRUE) ELSE out

\* alternateFrame left alone with both bumpers held (a variant C33 must tell
\* apart from the code)
toggleFrameNever(l1, r1) == alternateFrame

\* alternateFrame = !alternateFrame under bothPressed (MouseMode.cpp 55-57)
toggleFrame(l1, r1) == IF l1 /\ r1 THEN ~alternateFrame ELSE alternateFrame

\* the cursor positioning of one cycle, frame being alternateFrame as line
\* 57 left it (MouseMode.cpp 54-69)
mousePositioning(out, in, frame) ==
    IF in.l1 /\ in.r1
    THEN moveMouseToStickPosition(out, IF frame THEN in.left ELSE in.right)
    ELSE IF in.l1 THEN moveMouseToStickPosition(out, in.left)
    ELSE IF in.r1 THEN moveMouseToStickPosition(out, in.right)
    ELSE out

\* The polled controller states of mouse mode: the bumpers and the sticks,
\* the parameters handleKeyboardControl has too.
MouseInputs == KeyboardInputs

\* One cycle of run() in mouse mode: the whole call of handleMouseControl
\* (MouseMode.cpp 34-73) and then updateOverlay (ControllerMapper.cpp
\* 1658-1672).
handleMouseControl(in) ==
    /\ running /\ currentMode = "Mouse"
    /\ mouseButtonPressed' = IF pressEdge(in.l1, in.r1) THEN TRUE
                             ELSE IF releaseEdge(in.l1, in.r1) THEN FALSE
                             ELSE mouseButtonPressed
    /\ alternateFrame' = toggleFrame(in.l1, in.r1)
    /\ sent' = mousePositioning(mouseButtonHandling(<<>>, in.l1, in.r1), in,
                                toggleFrame(in.l1, in.r1))
    /\ prevL1' = in.l1 /\ prevR1' = in.r1
    /\ leftStick' = in.left /\ rightStick' = in.right
    /\ invoked' = updateOverlay(Members)
    /\ UNCHANGED << leftTouchActive, rightTouchActive,
                    currentLHeldDirection, currentRHeldDirection, leftPointerLocked,
                    rightPointerLocked, leftLockedDirection, rightLockedDirection,
                    prevL2, prevR2, prevL3, prevR3, l3TouchActive, r3TouchActive,
                    currentLeftKey, currentRightKey, currentMode, running, probe >>

\* ControllerMapper app(InputMode::Mouse), before the first cycle of run()
MouseInit == Constructed /\ currentMode = "Mouse" /\ probe = NoCall

\* mouse mode until the program is stopped
MouseNext ==
    \/ \E in \in MouseInputs : handleMouseControl(in)
    \/ cleanup

MouseSpec == MouseInit /\ [][MouseNext]_vars

(***************************************************************************)
(* The geometry functions on their own.  The initial state draws one call  *)
(* (a function and its arguments) and the action of that function applies  *)
(* it, recording what it returns in probe.result.  Angles are sampled      *)
(* every AngleStep tenths of a degree over [0, 360), plus the 190 and the   *)
(* 202.5 degrees of the documented scenarios.                              *)
(***************************************************************************)
AngleStep == 25

FullTurn == 3600

GeoAngles == { a \in 0..(FullTurn - 1) : a % AngleStep = 0 } \cup {1900, 2025}

GeoDirections == NONE..(DIRECTION_SECTORS - 1)

programVars ==
    << leftTouchActive, rightTouchActive, currentLHeldDirection, currentRHeldDirection,
       leftPointerLocked, rightPointerLocked, leftLockedDirection, rightLockedDirection,
       prevL1, prevR1, prevL2, prevR2, prevL3, prevR3, l3TouchActive, r3TouchActive,
       leftStick, rightStick, currentLeftKey, currentRightKey, mouseButtonPressed, alternateFrame,
       currentMode, running, sent, invoked >>

CheckPointerLockCalls ==
    [ fn : {"checkPointerLock"}, done : {FALSE}, heldDirection : GeoDirections,
      currentDirection : GeoDirections, currentAngle : GeoAngles ]

CalculateLockedPositionCalls ==
    [ fn : {"calculateLockedPosition"}, done : {FALSE},
      heldDirection : 0..(DIRECTION_SECTORS - 1),
      lockedDirection : 0..(DIRECTION_SECTORS - 1), current : GeoSticks ]

GetDirectionCalls ==
    [ fn : {"getDirection"}, done : {FALSE},
      angle : 0..FullTurn \cup {NoAngle} ]

CalculateAngleCalls ==
    [ fn : {"calculateAngle"}, done : {FALSE}, stick : GeoSticks ]

\* 90.00000000000001 degrees, one double above 90: what line 1131 computes
\* for the stick (-1.0347e-13, 1.0), a hair to the left of straight up
JustPastUp == << 900, 2 >>

\* the angles line 1131 computes for the sampled sticks, and JustPastUp
GeoDegrees == { toDegrees(s[2], s[1]) : s \in GeoSticks \ {<<0, 0>>} } \cup {JustPastUp}

RotateFromTopCalls ==
    [ fn : {"rotateFromTop"}, done : {FALSE}, degrees : GeoDegrees ]

GeoCalls ==
    CheckPointerLockCalls \cup CalculateLockedPositionCalls
        \cup GetDirectionCalls \cup CalculateAngleCalls \cup RotateFromTopCalls

GeoInit == Constructed /\ currentMode = "Touch" /\ probe \in GeoCalls

applyCheckPointerLock ==
    /\ probe.fn = "checkPointerLock" /\ ~probe.done
    /\ probe' = [ fn |-> "checkPointerLock", done |-> TRUE,
                  heldDirection |-> probe.heldDirection,
                  currentDirection |-> probe.currentDirection,
                  currentAngle |-> probe.currentAngle,
                  result |-> checkPointerLock(probe.heldDirection, probe.currentDirection,
                                              probe.currentAngle) ]
    /\ UNCHANGED programVars

applyCalculateLockedPosition ==
    /\ probe.fn = "calculateLockedPosition" /\ ~probe.done
    /\ probe' = [ fn |-> "calculateLockedPosition", done |-> TRUE,
                  heldDirection |-> probe.heldDirection,
                  lockedDirection |-> probe.lockedDirection,
                  current |-> probe.current,
                  result |-> calculateLockedPosition(probe.heldDirection,
                                 probe.lockedDirection, probe.current[1], probe.current[2]) ]
    /\ UNCHANGED programVars

applyGetDirection ==
    /\ probe.fn = "getDirection" /\ ~probe.done
    /\ probe' = [ fn |-> "getDirection", done |-> TRUE, angle |-> probe.angle,
                  result |-> getDirection(probe.angle) ]
    /\ UNCHANGED programVars

applyCalculateAngle ==
    /\ probe.fn = "calculateAngle" /\ ~probe.done
    /\ probe' = [ fn |-> "calculateAngle", done |-> TRUE, stick |-> probe.stick,
                  result |-> calculateAngle(probe.stick[1], probe.stick[2]) ]
    /\ UNCHANGED programVars

\* calculateAngle from line 1134 on, for an angle computed at line 1131
applyRotateFromTop ==
    /\ probe.fn = "rotateFromTop" /\ ~probe.done
    /\ probe' = [ fn |-> "rotateFromTop", done |-> TRUE, degrees |-> probe.degrees,
                  result |-> floorTenth(rotateFromTop(probe.degrees)) ]
    /\ UNCHANGED programVars

GeoNext ==
    \/ applyCheckPointerLock
    \/ applyCalculateLockedPosition
    \/ applyGetDirection
    \/ applyCalculateAngle
    \/ applyRotateFromTop

GeometrySpec == GeoInit /\ [][GeoNext]_vars

(***************************************************************************)
(* Reading the log of one cycle.  A single-touch signal of side id (0 =    *)
(* left, 1 = right) is a call issued by sendTouch; the batched emission is *)
(* the call issued through sendMultipleTouches and carries both sides.     *)
(***************************************************************************)
SingleCalls(log, id, opt) ==
    { i \in 1..Len(log) : /\ log[i].by = "sendTouch"
                          /\ log[i].touches[1].id = id
                          /\ log[i].touches[1].opt = opt }

BatchCalls(log) == { i \in 1..Len(log) : log[i].by = "sendMultipleTouches" }

Opens(log, id) == Cardinality(SingleCalls(log, id, "PointerDown"))
Closes(log, id) == Cardinality(SingleCalls(log, id, "PointerUp"))
Updates(log, id) == Cardinality(SingleCalls(log, id, "Update")) + Cardinality(BatchCalls(log))

\* the positions reported for side id by the updates of the cycle
UpdatePositions(log, id) ==
    { << log[i].touches[1].x, log[i].touches[1].y >> : i \in SingleCalls(log, id, "Update") }
    \cup { << log[i].touches[id + 1].x, log[i].touches[id + 1].y >> : i \in BatchCalls(log) }

\* C1: at the end of every cycle, on each side, locked implies that the
\* held direction is a valid sector 0..7 (never NONE).
C1_LockedHasHeldSector ==
    /\ leftPointerLocked => currentLHeldDirection \in 0..(DIRECTION_SECTORS - 1)
    /\ rightPointerLocked => currentRHeldDirection \in 0..(DIRECTION_SECTORS - 1)

\* a cycle that ended with the left side locked by the trigger while its
\* session is open
C1_Witness ==
    /\ leftPointerLocked /\ leftTouchActive /\ prevL2
    /\ currentLHeldDirection \in 0..(DIRECTION_SECTORS - 1)
    /\ leftLockedDirection \in 0..(DIRECTION_SECTORS - 1)

\* C2: at the end of every cycle other than the one in which the side's
\* session is closed, heldDirection # NONE implies touchActive.
C2_HeldImpliesSessionOpen ==
    /\ (currentLHeldDirection # NONE /\ Closes(sent, 0) = 0) => leftTouchActive
    /\ (currentRHeldDirection # NONE /\ Closes(sent, 1) = 0) => rightTouchActive

\* a touch-down of side id emitted while its session is open: the session
\* is open at the start of the cycle (startOpen) or was opened earlier in the
\* cycle, and no touch-up of the side precedes the touch-down since
DownWhileOpen(log, id, startOpen) ==
    \E i \in SingleCalls(log, id, "PointerDown") :
        LET before == { j \in SingleCalls(log, id, "PointerDown")
                                \cup SingleCalls(log, id, "PointerUp") : j < i }
        IN  IF before = {} THEN startOpen
            ELSE log[CHOOSE j \in before : \A k \in before : k <= j].touches[1].opt
                     = "PointerDown"

\* C3: a touch-down of a side is emitted only while that side's session is
\* closed: a press edge of either activation control while the session is
\* open emits no touch-down, so between two touch-downs of a side there is
\* always a touch-up of that side.
C3_OpenOnlyWhenClosed ==
    [][ /\ ~DownWhileOpen(sent', 0, leftTouchActive)
        /\ ~DownWhileOpen(sent', 1, rightTouchActive) ]_vars

\* C4: with the session open and both activation controls held, releasing
\* exactly one of them (the stick press not involved) emits no touch-up and
\* leaves the session open.
C4_ReleaseKeepsSessionWhileOtherHeld ==
    [][ /\ (/\ leftTouchActive /\ prevL1 /\ prevL2 /\ prevL1' # prevL2'
            /\ ~prevL3 /\ ~prevL3')
           => (leftTouchActive' /\ Closes(sent', 0) = 0)
        /\ (/\ rightTouchActive /\ prevR1 /\ prevR2 /\ prevR1' # prevR2'
            /\ ~prevR3 /\ ~prevR3')
           => (rightTouchActive' /\ Closes(sent', 1) = 0) ]_vars

\* C5: a cycle with a release edge of the bumper while the side is locked
\* ends unlocked, with the endpoint NONE, and has emitted a touch-up,
\* whatever the trigger's value.
C5_BumperReleaseClearsLock ==
    [][ /\ (leftPointerLocked /\ prevL1 /\ ~prevL1')
           => (/\ ~leftPointerLocked' /\ leftLockedDirection' = NONE
               /\ Closes(sent', 0) > 0)
        /\ (rightPointerLocked /\ prevR1 /\ ~prevR1')
           => (/\ ~rightPointerLocked' /\ rightLockedDirection' = NONE
               /\ Closes(sent', 1) > 0) ]_vars

\* C6: releasing the trigger while the side is open and locked and the
\* bumper stays held (the stick press not involved) clears the lock and the
\* endpoint but keeps the session open, emits no touch-up and reports the
\* raw stick position.
C6_TriggerReleaseKeepsSession ==
    [][ /\ (/\ leftTouchActive /\ leftPointerLocked /\ prevL1 /\ prevL2
            /\ prevL1' /\ ~prevL2' /\ ~prevL3 /\ ~prevL3')
           => (/\ ~leftPointerLocked' /\ leftLockedDirection' = NONE
               /\ leftTouchActive' /\ Closes(sent', 0) = 0
               /\ UpdatePositions(sent', 0) = {leftStick'})
        /\ (/\ rightTouchActive /\ rightPointerLocked /\ prevR1 /\ prevR2
            /\ prevR1' /\ ~prevR2' /\ ~prevR3 /\ ~prevR3')
           => (/\ ~rightPointerLocked' /\ rightLockedDirection' = NONE
               /\ rightTouchActive' /\ Closes(sent', 1) = 0
               /\ UpdatePositions(sent', 1) = {rightStick'}) ]_vars

\* C7 as claimed: locked goes from true to false only in a cycle in which
\* the trigger is released or the session is torn down (a touch-up is
\* emitted).
C7_UnlockOnlyOnRelease ==
    [][ /\ (leftPointerLocked /\ ~leftPointerLocked')
           => \/ prevL2 /\ ~prevL2'
              \/ Closes(sent', 0) > 0
        /\ (rightPointerLocked /\ ~rightPointerLocked')
           => \/ prevR2 /\ ~prevR2'
              \/ Closes(sent', 1) > 0 ]_vars

\* C7 as amended: locked goes from true to false only in a cycle in which
\* the trigger is released, the session is torn down (a touch-up is
\* emitted), or the stick is at the exact centre (0,0); so while the session
\* is open and the trigger stays held, locked remains true across every
\* off-centre stick position.
C7_UnlockOnlyOnReleaseOrCentre ==
    [][ /\ (leftPointerLocked /\ ~leftPointerLocked')
           => \/ prevL2 /\ ~prevL2'
              \/ Closes(sent', 0) > 0
              \/ leftStick' = <<0, 0>>
        /\ (rightPointerLocked /\ ~rightPointerLocked')
           => \/ prevR2 /\ ~prevR2'
              \/ Closes(sent', 1) > 0
              \/ rightStick' = <<0, 0>> ]_vars

\* the lock was dropped by the stick passing through the centre: the
\* trigger is held, the session is open, a direction is captured (so the
\* side was locked by the trigger's press cycle or a later one), the L3
\* pattern does not suppress the update, and the side is not locked
C7_Witness ==
    /\ prevL2 /\ leftTouchActive /\ ~l3TouchActive /\ ~prevL3
    /\ currentLHeldDirection \in 0..(DIRECTION_SECTORS - 1)
    /\ leftStick = <<0, 0>>
    /\ ~leftPointerLocked /\ leftLockedDirection = NONE
    /\ UpdatePositions(sent, 0) = {<<0, 0>>}

\* the first call of the cycle that concerns side id: a single-touch call
\* for id or the batched call (0 when there is none)
FirstCall(log, id) ==
    LET mine == { i \in 1..Len(log) : \/ log[i].by = "sendMultipleTouches"
                                      \/ /\ log[i].by = "sendTouch"
                                         /\ log[i].touches[1].id = id }
    IN  IF mine = {} THEN 0 ELSE CHOOSE i \in mine : \A j \in mine : i <= j

OpensFirstAt(log, id, stick) ==
    /\ FirstCall(log, id) # 0
    /\ log[FirstCall(log, id)].by = "sendTouch"
    /\ log[FirstCall(log, id)].touches[1] = createTouchInfo(id, stick[1], stick[2], TRUE, FALSE)

\* C8: a press edge of the bumper alone or of the trigger alone, on a side
\* whose session is closed, with the stick off-centre (the stick press not
\* involved), ends with heldDirection = getDirection(calculateAngle(stick))
\* and touchActive, and the side's first signal of the cycle is the
\* touch-down at the raw stick position.
C8_PressCapturesAndOpens ==
    [][ /\ (/\ ~leftTouchActive /\ ~prevL3 /\ ~prevL3' /\ leftStick' # <<0, 0>>
            /\ \/ ~prevL1 /\ prevL1' /\ ~prevL2 /\ ~prevL2'
               \/ ~prevL2 /\ prevL2' /\ ~prevL1 /\ ~prevL1')
           => (/\ currentLHeldDirection'
                    = getDirection(calculateAngle(leftStick'[1], leftStick'[2]))
               /\ leftTouchActive'
               /\ OpensFirstAt(sent', 0, leftStick'))
        /\ (/\ ~rightTouchActive /\ ~prevR3 /\ ~prevR3' /\ rightStick' # <<0, 0>>
            /\ \/ ~prevR1 /\ prevR1' /\ ~prevR2 /\ ~prevR2'
               \/ ~prevR2 /\ prevR2' /\ ~prevR1 /\ ~prevR1')
           => (/\ currentRHeldDirection'
                    = getDirection(calculateAngle(rightStick'[1], rightStick'[2]))
               /\ rightTouchActive'
               /\ OpensFirstAt(sent', 1, rightStick')) ]_vars

\* C9: in every cycle each side gets at most one signal among touch-down,
\* update and touch-up, the batched emission counting as one update for
\* each side.
C9_AtMostOneSignalPerSide ==
    \A id \in {0, 1} : Opens(sent, id) + Closes(sent, id) + Updates(sent, id) <= 1

\* C10: a cycle that starts with a side's session open, does not close it
\* and has one of the side's activation controls held reports a position
\* for that side (individually or in the batched emission).
C10_OpenSessionReportsPosition ==
    [][ /\ (/\ leftTouchActive /\ leftTouchActive' /\ Closes(sent', 0) = 0
            /\ (prevL1' \/ prevL2'))
           => Updates(sent', 0) > 0
        /\ (/\ rightTouchActive /\ rightTouchActive' /\ Closes(sent', 1) = 0
            /\ (prevR1' \/ prevR2'))
           => Updates(sent', 1) > 0 ]_vars

\* C11: a cycle that ends with both sides' sessions open has sent exactly
\* one batched emission holding both touch points, and no individual update
\* for either side.
C11_BothOpenBatchOnly ==
    (leftTouchActive /\ rightTouchActive)
        => /\ Cardinality(BatchCalls(sent)) = 1
           /\ \A i \in BatchCalls(sent) :
                  /\ Len(sent[i].touches) = 2
                  /\ sent[i].touches[1].id = 0 /\ sent[i].touches[2].id = 1
           /\ SingleCalls(sent, 0, "Update") = {}
           /\ SingleCalls(sent, 1, "Update") = {}

\* The members with the right side's fields as the constructor leaves them,
\* and with the left side's likewise.
MembersRightIdle ==
    [ Members EXCEPT !.rightTouchActive = FALSE, !.currentRHeldDirection = NONE,
                     !.rightPointerLocked = FALSE, !.rightLockedDirection = NONE,
                     !.r3TouchActive = FALSE ]

MembersLeftIdle ==
    [ Members EXCEPT !.leftTouchActive = FALSE, !.currentLHeldDirection = NONE,
                     !.leftPointerLocked = FALSE, !.leftLockedDirection = NONE,
                     !.l3TouchActive = FALSE ]

\* The blocks of handleTouchControl that write the left side's members
\* (TouchMode.cpp 674-690, 712-737, 796-817), run in source order on the
\* members with the right side blank, and the same for the right side
\* (693-709, 740-765, 828-849).
LeftAlone(l1, l2, l3, stick) ==
    LET in == [ l1 |-> l1, l2 |-> l2, l3 |-> l3, left |-> stick,
                r1 |-> FALSE, r2 |-> FALSE, r3 |-> FALSE, right |-> <<0, 0>> ]
    IN  leftStickPressHandling(
            leftBumperHandling(leftTriggerEdges(MembersRightIdle, in), in), in)

RightAlone(r1, r2, r3, stick) ==
    LET in == [ r1 |-> r1, r2 |-> r2, r3 |-> r3, right |-> stick,
                l1 |-> FALSE, l2 |-> FALSE, l3 |-> FALSE, left |-> <<0, 0>> ]
    IN  rightStickPressHandling(
            rightBumperHandling(rightTriggerEdges(MembersLeftIdle, in), in), in)

\* C12: the left side's state after a cycle (held direction, touchActive,
\* locked, locked direction, the L3 pattern flag) is the one the left blocks
\* of the handler produce from the left side's state and the left inputs
\* alone, whatever the right side's state and inputs are in that cycle; and
\* symmetrically for the right side.  The previous-button flags of a side
\* are that side's inputs by construction.
C12_SidesIndependent ==
    [][ /\ \E a \in {LeftAlone(prevL1', prevL2', prevL3', leftStick')} :
              /\ leftTouchActive' = a.leftTouchActive
              /\ currentLHeldDirection' = a.currentLHeldDirection
              /\ leftPointerLocked' = a.leftPointerLocked
              /\ leftLockedDirection' = a.leftLockedDirection
              /\ l3TouchActive' = a.l3TouchActive
        /\ \E b \in {RightAlone(prevR1', prevR2', prevR3', rightStick')} :
              /\ rightTouchActive' = b.rightTouchActive
              /\ currentRHeldDirection' = b.currentRHeldDirection
              /\ rightPointerLocked' = b.rightPointerLocked
              /\ rightLockedDirection' = b.rightLockedDirection
              /\ r3TouchActive' = b.r3TouchActive ]_vars

\* the left side locked by its trigger in a cycle in which the right side's
\* session is open and both positions went out in the batched emission
C12_Witness ==
    /\ leftPointerLocked /\ leftTouchActive /\ prevL2 /\ leftStick # <<0, 0>>
    /\ rightTouchActive /\ prevR1
    /\ BatchCalls(sent) # {}

\* checkPointerLock on a held direction and a stick position, as its
\* callers invoke it: with the stick's angle and the sector of that angle
resolveLock(heldDirection, stick) ==
    checkPointerLock(heldDirection,
                     getDirection(calculateAngle(stick[1], stick[2])),
                     calculateAngle(stick[1], stick[2]))

\* C13: a cycle in which a side's session is open at the start and at the
\* end with no touch-up in between, the trigger is held, a direction is
\* captured and the stick is off-centre ends locked, with the locked
\* direction the one checkPointerLock gives for that cycle's stick.
C13_HeldTriggerLocks ==
    [][ /\ (/\ leftTouchActive /\ leftTouchActive' /\ Closes(sent', 0) = 0
            /\ prevL2' /\ currentLHeldDirection' # NONE /\ leftStick' # <<0, 0>>)
           => (/\ leftPointerLocked'
               /\ leftLockedDirection'
                    = resolveLock(currentLHeldDirection', leftStick').lockedDirection)
        /\ (/\ rightTouchActive /\ rightTouchActive' /\ Closes(sent', 1) = 0
            /\ prevR2' /\ currentRHeldDirection' # NONE /\ rightStick' # <<0, 0>>)
           => (/\ rightPointerLocked'
               /\ rightLockedDirection'
                    = resolveLock(currentRHeldDirection', rightStick').lockedDirection) ]_vars

\* the position the left / right side is to report from members s and
\* input in: the projected position when locked, the raw stick otherwise
leftExpectedPosition(s, in) ==
    IF s.leftPointerLocked
    THEN calculateLockedPosition(s.currentLHeldDirection, s.leftLockedDirection,
                                 in.left[1], in.left[2])
    ELSE in.left

rightExpectedPosition(s, in) ==
    IF s.rightPointerLocked
    THEN calculateLockedPosition(s.currentRHeldDirection, s.rightLockedDirection,
                                 in.right[1], in.right[2])
    ELSE in.right

\* the polled input of the cycle that led to the current state
polled ==
    [ l1 |-> prevL1, r1 |-> prevR1, l2 |-> prevL2, r2 |-> prevR2,
      l3 |-> prevL3, r3 |-> prevR3, left |-> leftStick, right |-> rightStick ]

\* C14: every update position sent for a side, individually or as its
\* entry of the batched emission, is the projected position when the side
\* is locked at the moment of emission and the raw stick when it is not.
\* The updates are all sent before the stick-press blocks, and the lock
\* state at that point is the one every update of the cycle was sent under.
C14_UpdatePositionMatchesLock ==
    [][ \E in \in {polled'} :
        \E s1 \in {leftTriggerEdges(Members, in)} :
        \E s2 \in {rightTriggerEdges(s1, in)} :
        \E s3 \in {leftBumperHandling(s2, in)} :
        \E s4 \in {rightBumperHandling(s3, in)} :
        \E s5 \in {sendBothTogether(s4, in)} :
            /\ \A p \in UpdatePositions(s5.out, 0) : p = leftExpectedPosition(s5, in)
            /\ \A p \in UpdatePositions(s5.out, 1) : p = rightExpectedPosition(s5, in)
            /\ UpdatePositions(sent', 0) = UpdatePositions(s5.out, 0)
            /\ UpdatePositions(sent', 1) = UpdatePositions(s5.out, 1) ]_vars

\* both sessions open, the left side locked, and the batched emission
\* carrying the left side's projected position, which is not the raw stick
C14_Witness ==
    /\ leftTouchActive /\ rightTouchActive /\ leftPointerLocked /\ ~prevL3
    /\ BatchCalls(sent) # {}
    /\ UpdatePositions(sent, 0) = {leftExpectedPosition(Members, polled)}
    /\ leftExpectedPosition(Members, polled) # leftStick

\* C15: at the end of every cycle a locked side has its session open
\* (the only states of a side are IDLE, ACTIVE and ACTIVE+LOCKED).
C15_LockedImpliesSessionOpen ==
    /\ leftPointerLocked => leftTouchActive
    /\ rightPointerLocked => rightTouchActive

\* a completed call of checkPointerLock on a held and a current sector
CheckPointerLockDone ==
    /\ probe.fn = "checkPointerLock" /\ probe.done
    /\ probe.heldDirection \in 0..7 /\ probe.currentDirection \in 0..7

\* C16: for every held sector, current sector and angle in [0,360),
\* checkPointerLock returns true with an endpoint that is (held+3) mod 8 or
\* (held+5) mod 8, hence neither the held sector nor its opposite.
C16_EndpointAdjacentToOpposite ==
    CheckPointerLockDone
        => /\ probe.result.ok
           /\ probe.result.lockedDirection
                \in { (probe.heldDirection + 3) % 8, (probe.heldDirection + 5) % 8 }
           /\ probe.result.lockedDirection # probe.heldDirection
           /\ probe.result.lockedDirection # (probe.heldDirection + 4) % 8

\* checkPointerLock applied to held sector 6 with the stick in sector 1 at
\* 60 degrees: the endpoint is 1 = (6+3) mod 8
C16_Witness ==
    /\ CheckPointerLockDone
    /\ probe.heldDirection = 6 /\ probe.currentDirection = 1 /\ probe.currentAngle = 600
    /\ probe.result.lockedDirection = 1

\* the shortest distance around the circle between two angles of [0,360)
circularDistance(a, b) ==
    IF absDiff(a, b) <= FullTurn - absDiff(a, b) THEN absDiff(a, b)
    ELSE FullTurn - absDiff(a, b)

\* C17: for every held sector and every angle in [0,360), the endpoint
\* checkPointerLock returns is the candidate (opposite-1 or opposite+1,
\* mod 8) whose arc centre, candidate*45 + 22.5 degrees, is at the smaller
\* shortest circular distance from the current angle: no candidate is
\* strictly closer than the one returned; held 0 at 190 degrees gives 3.
C17_CloserCandidateChosen ==
    CheckPointerLockDone
        => /\ \A c \in { (probe.heldDirection + 3) % 8, (probe.heldDirection + 5) % 8 } :
                  circularDistance(probe.currentAngle,
                                   probe.result.lockedDirection * 450 + 225)
                      <= circularDistance(probe.currentAngle, c * 450 + 225)
           /\ (probe.heldDirection = 0 /\ probe.currentAngle = 1900)
                  => probe.result.lockedDirection = 3

\* the documented scenario: held 0, the stick at 190 degrees (sector 4),
\* endpoint 3
C17_Witness ==
    /\ CheckPointerLockDone
    /\ probe.heldDirection = 0 /\ probe.currentDirection = 4 /\ probe.currentAngle = 1900
    /\ probe.result.ok /\ probe.result.lockedDirection = 3

minOf(a, b) == IF a <= b THEN a ELSE b

maxOf(a, b) == IF a >= b THEN a ELSE b

\* point p lies on the straight segment from start to end, up to the
\* rounding of the thousandths (3 thousandths): it is within the segment's
\* bounding box and its distance to the line through start and end, the
\* cross product divided by the segment's length (at most 2000), is small
onSegment(p, start, end) ==
    /\ minOf(start[1], end[1]) - 3 <= p[1] /\ p[1] <= maxOf(start[1], end[1]) + 3
    /\ minOf(start[2], end[2]) - 3 <= p[2] /\ p[2] <= maxOf(start[2], end[2]) + 3
    /\ absDiff((p[1] - start[1]) * (end[2] - start[2]),
               (p[2] - start[2]) * (end[1] - start[1])) <= 3 * 2000

\* C18: for every held sector, every endpoint sector and every stick
\* vector, also far outside the unit circle, the point calculateLockedPosition
\* returns lies on the straight segment between the arc centre of the held
\* sector and the arc centre of the endpoint.
C18_ProjectionOnSegment ==
    (probe.fn = "calculateLockedPosition" /\ probe.done)
        => onSegment(probe.result, getDirectionArcCenter(probe.heldDirection),
                     getDirectionArcCenter(probe.lockedDirection))

\* held 0, endpoint 5 and the stick far out to the left at (-5, 0): the
\* projection runs past the endpoint and the result is the endpoint's arc
\* centre
C18_Witness ==
    /\ probe.fn = "calculateLockedPosition" /\ probe.done
    /\ probe.heldDirection = 0 /\ probe.lockedDirection = 5
    /\ probe.current = <<-5000, 0>>
    /\ absDiff(probe.result[1], -924) <= 3 /\ absDiff(probe.result[2], -383) <= 3

\* C19: for every angle a of [0,360), getDirection returns a sector k of
\* 0..7 with 45k <= a < 45k + 45; as k is determined by a, the eight
\* sectors partition [0,360) without gap or overlap.
C19_SectorsPartitionCircle ==
    (probe.fn = "getDirection" /\ probe.done /\ probe.angle \in 0..(FullTurn - 1))
        => /\ probe.result \in 0..(DIRECTION_SECTORS - 1)
           /\ DEGREES_PER_SECTOR * probe.result <= probe.angle
           /\ probe.angle < DEGREES_PER_SECTOR * probe.result + DEGREES_PER_SECTOR

\* getDirection applied to 359.9 degrees, the last angle of sector 7
C19_Witness ==
    /\ probe.fn = "getDirection" /\ probe.done
    /\ probe.angle = FullTurn - 1 /\ probe.result = 7

C21_ArcCenterRoundTrip ==
    \A s \in 0..(DIRECTION_SECTORS - 1) :
        (probe.fn = "calculateAngle" /\ probe.done /\ probe.stick = getDirectionArcCenter(s))
            => getDirection(probe.result) = s

C21_Witness ==
    /\ probe.fn = "calculateAngle" /\ probe.done
    /\ probe.stick = getDirectionArcCenter(5)
    /\ getDirection(probe.result) = 5

\* two positions no further apart than the rounding of the arithmetic
\* (3 thousandths on each coordinate)
withinRounding(p, q) == absDiff(p[1], q[1]) <= 3 /\ absDiff(p[2], q[2]) <= 3

\* C22: the projection is the identity at both ends of the path: for every
\* held and endpoint sector, calculateLockedPosition returns the held arc
\* centre for a stick on the held arc centre, and the endpoint's arc centre
\* (to the rounding of the arithmetic) for a stick on the endpoint's.
C22_ProjectionIdentityAtEnds ==
    (probe.fn = "calculateLockedPosition" /\ probe.done)
        => /\ probe.current = getDirectionArcCenter(probe.heldDirection)
                  => probe.result = getDirectionArcCenter(probe.heldDirection)
           /\ probe.current = getDirectionArcCenter(probe.lockedDirection)
                  => withinRounding(probe.result,
                                    getDirectionArcCenter(probe.lockedDirection))

C22_Witness ==
    /\ probe.fn = "calculateLockedPosition" /\ probe.done
    /\ probe.heldDirection = 0 /\ probe.lockedDirection = 3
    /\ probe.current = getDirectionArcCenter(3)
    /\ withinRounding(probe.result, getDirectionArcCenter(3))
    /\ ~withinRounding(probe.result, getDirectionArcCenter(0))

\* C23: calculateAngle returns the no-input value exactly when x = 0 and
\* y = 0, getDirection maps the no-input angle to the sector NONE, and every
\* other stick vector, however small, gets a sector of 0..7.
C23_NoneOnlyAtCentre ==
    /\ (probe.fn = "calculateAngle" /\ probe.done)
           => /\ (probe.result = NoAngle) <=> (probe.stick = <<0, 0>>)
              /\ probe.stick # <<0, 0>>
                     => getDirection(probe.result) \in 0..(DIRECTION_SECTORS - 1)
    /\ (probe.fn = "rotateFromTop" /\ probe.done)
           => getDirection(probe.result) \in 0..(DIRECTION_SECTORS - 1)
    /\ (probe.fn = "getDirection" /\ probe.done /\ probe.angle = NoAngle)
           => probe.result = NONE

C23_Witness ==
    /\ probe.fn = "calculateAngle" /\ probe.done
    /\ probe.stick = <<0, 0>>
    /\ probe.result = NoAngle
    /\ getDirection(probe.result) = NONE

\* C24: the callers guard the preconditions of the lock functions: no
\* invocation of checkPointerLock has a held or a current direction NONE, and
\* no invocation of calculateLockedPosition (from handleTouchMovementUpdate,
\* from the batched send or from the overlay update) has a held or a locked
\* direction NONE.
C24_CallersGuardPreconditions ==
    \A i \in 1..Len(invoked) :
        /\ invoked[i].fn = "checkPointerLock"
               => invoked[i].heldDirection # NONE /\ invoked[i].currentDirection # NONE
        /\ invoked[i].fn = "calculateLockedPosition"
               => invoked[i].heldDirection # NONE /\ invoked[i].lockedDirection # NONE

\* C24, amended: no invocation of checkPointerLock has a held direction
\* NONE, and no invocation of calculateLockedPosition has a held or a locked
\* direction NONE; the current direction handed to checkPointerLock is NONE
\* whenever the stick is centred, and checkPointerLock answers that itself.
C24_CallersGuardHeldAndLocked ==
    \A i \in 1..Len(invoked) :
        /\ invoked[i].fn = "checkPointerLock" => invoked[i].heldDirection # NONE
        /\ invoked[i].fn = "calculateLockedPosition"
               => invoked[i].heldDirection # NONE /\ invoked[i].lockedDirection # NONE

\* a cycle in which all three callers of calculateLockedPosition invoked it
C24_Witness ==
    /\ \E i \in 1..Len(invoked) :
           invoked[i].fn = "calculateLockedPosition" /\ invoked[i].from = "handleTouchControl"
    /\ \E i \in 1..Len(invoked) :
           invoked[i].fn = "calculateLockedPosition"
               /\ invoked[i].from = "handleTouchMovementUpdate"
    /\ \E i \in 1..Len(invoked) :
           invoked[i].fn = "calculateLockedPosition"
               /\ invoked[i].from = "updateTouchPointerPosition"

\* C25: after cleanup() has returned, from any reachable state, no touch
\* point (the points of the L3 / R3 patterns included), no key and no mouse
\* button is left down, and the flags that stand for them are false.
C25_CleanupClosesEverything ==
    ~running => /\ ~leftTouchActive /\ ~rightTouchActive
                /\ ~l3TouchActive /\ ~r3TouchActive
                /\ currentLeftKey = "" /\ currentRightKey = ""
                /\ ~mouseButtonPressed

\* the key-down events of a log
KeyDowns(log) == { i \in 1..Len(log) : log[i].by = "simulateKeyPress" /\ log[i].isDown }

\* a side's current key was set to a new key in the step: the side's
\* key-down of the cycle
LeftKeyWentDown == currentLeftKey' # "" /\ currentLeftKey' # currentLeftKey

RightKeyWentDown == currentRightKey' # "" /\ currentRightKey' # currentRightKey

\* the virtual-key code of the digit s + 1: '1' is 49
digitCode(s) == 49 + s

\* C26: in keyboard mode every key-down emitted for a side is the digit key
\* (s + 1), one of '1'..'8', where s is the sector of that side's stick in
\* that cycle; each key-down is the new current key of a side, and
\* handleKeyboardControl leaves the held direction, the lock and the locked
\* direction of both sides unchanged.
C26_KeyIsSectorDigit ==
    [][ (currentMode = "Keyboard" /\ running') =>
        /\ \A i \in KeyDowns(sent') :
               sent'[i].keyCode \in { getKeyCode(currentLeftKey'), getKeyCode(currentRightKey') }
        /\ Cardinality(KeyDowns(sent'))
               = (IF LeftKeyWentDown THEN 1 ELSE 0) + (IF RightKeyWentDown THEN 1 ELSE 0)
        /\ LeftKeyWentDown =>
               \E s \in 0..(DIRECTION_SECTORS - 1) :
                   /\ s = getDirection(calculateAngle(leftStick'[1], leftStick'[2]))
                   /\ getKeyCode(currentLeftKey') = digitCode(s)
                   /\ \E i \in KeyDowns(sent') : sent'[i].keyCode = digitCode(s)
        /\ RightKeyWentDown =>
               \E s \in 0..(DIRECTION_SECTORS - 1) :
                   /\ s = getDirection(calculateAngle(rightStick'[1], rightStick'[2]))
                   /\ getKeyCode(currentRightKey') = digitCode(s)
                   /\ \E i \in KeyDowns(sent') : sent'[i].keyCode = digitCode(s)
        /\ UNCHANGED << currentLHeldDirection, currentRHeldDirection, leftPointerLocked,
                        rightPointerLocked, leftLockedDirection, rightLockedDirection >>
      ]_vars

\* the left stick in the last sector and the key 8 gone down for it, while
\* the right side holds the key 1
C26_Witness ==
    /\ currentMode = "Keyboard" /\ running
    /\ leftStick = getDirectionArcCenter(DIRECTION_SECTORS - 1)
    /\ currentLeftKey = "8" /\ currentRightKey = "1"
    /\ \E i \in KeyDowns(sent) : sent[i].keyCode = 56

\* the current angle is as far from the arc centre of the left candidate
\* (opposite - 1) as from that of the right candidate (opposite + 1)
Equidistant ==
    circularDistance(probe.currentAngle, ((probe.heldDirection + 3) % 8) * 450 + 225)
        = circularDistance(probe.currentAngle, ((probe.heldDirection + 5) % 8) * 450 + 225)

\* C27: when the current angle is equidistant from the two candidate arc
\* centres (held 0 and 202.5 degrees, the centre of the opposite sector),
\* checkPointerLock returns the left candidate (opposite - 1) mod 8.
C27_TiesGoLeft ==
    (CheckPointerLockDone /\ Equidistant)
        => probe.result.lockedDirection = (probe.heldDirection + 3) % 8

\* C27, amended: on such a tie checkPointerLock returns the right candidate
\* (opposite + 1) mod 8; held 0 at 202.5 degrees gives 5.
C27_TiesGoRight ==
    (CheckPointerLockDone /\ Equidistant)
        => /\ probe.result.lockedDirection = (probe.heldDirection + 5) % 8
           /\ (probe.heldDirection = 0 /\ probe.currentAngle = 2025)
                  => probe.result.lockedDirection = 5

\* held 0 with the stick at 202.5 degrees, 45 degrees from both candidate
\* centres (157.5 and 247.5): the endpoint is 5
C27_Witness ==
    /\ CheckPointerLockDone /\ Equidistant
    /\ probe.heldDirection = 0 /\ probe.currentAngle = 2025
    /\ probe.result.lockedDirection = 5

\* the invocations of checkPointerLock a log holds for one touch with the
\* current direction NONE (the stick at the exact centre)
CentredChecks(log, touchId) ==
    { i \in 1..Len(log) : /\ log[i].fn = "checkPointerLock"
                          /\ log[i].touchId = touchId
                          /\ log[i].currentDirection = NONE }

\* C28: when a side's stick is at the exact centre while its lock control is
\* held and its movement update asks checkPointerLock, checkPointerLock
\* reports no lock and produces no endpoint, and the cycle ends not locked:
\* locked is false, the locked direction is NONE and the position reported
\* for the side is the raw stick position.  The same end state holds in
\* every cycle that keeps the side's session open with the lock control
\* held, a direction captured and the stick centred.
C28_CentredStickDoesNotLock ==
    [][ /\ \A i \in CentredChecks(invoked', 0) :
               /\ leftStick' = <<0, 0>> /\ prevL2'
               /\ checkPointerLock(invoked'[i].heldDirection, NONE,
                                   calculateAngle(0, 0)) = [ok |-> FALSE, lockedDirection |-> NONE]
               /\ ~leftPointerLocked' /\ leftLockedDirection' = NONE
               /\ \A p \in UpdatePositions(sent', 0) : p = leftStick'
        /\ \A i \in CentredChecks(invoked', 1) :
               /\ rightStick' = <<0, 0>> /\ prevR2'
               /\ checkPointerLock(invoked'[i].heldDirection, NONE,
                                   calculateAngle(0, 0)) = [ok |-> FALSE, lockedDirection |-> NONE]
               /\ ~rightPointerLocked' /\ rightLockedDirection' = NONE
               /\ \A p \in UpdatePositions(sent', 1) : p = rightStick'
        /\ (/\ leftTouchActive /\ leftTouchActive' /\ Closes(sent', 0) = 0
            /\ prevL2' /\ currentLHeldDirection' # NONE /\ leftStick' = <<0, 0>>)
           => (~leftPointerLocked' /\ leftLockedDirection' = NONE)
        /\ (/\ rightTouchActive /\ rightTouchActive' /\ Closes(sent', 1) = 0
            /\ prevR2' /\ currentRHeldDirection' # NONE /\ rightStick' = <<0, 0>>)
           => (~rightPointerLocked' /\ rightLockedDirection' = NONE)
      ]_vars

\* the right trigger held with a direction captured, the stick back at the
\* centre, checkPointerLock asked, and the raw position (0,0) reported
C28_Witness ==
    /\ CentredChecks(invoked, 1) # {}
    /\ rightTouchActive /\ prevR2 /\ currentRHeldDirection # NONE
    /\ rightStick = <<0, 0>>
    /\ ~rightPointerLocked /\ rightLockedDirection = NONE
    /\ UpdatePositions(sent, 1) = {<<0, 0>>}

\* C29: the single-touch handling of a side is locked out while its
\* stick-press pattern is active: at the end of every cycle l3TouchActive
\* implies that leftTouchActive is false, and r3TouchActive that
\* rightTouchActive is false.
C29_PatternLocksOutSingleTouch ==
    /\ l3TouchActive => ~leftTouchActive
    /\ r3TouchActive => ~rightTouchActive

\* the touch-downs of a stick-press pattern in a log: those of
\* sendPalmTouch whose touch id is among ids
PatternDowns(log, ids) ==
    { j \in 1..Len(log) : /\ log[j].by = "sendPalmTouch"
                          /\ log[j].touches[1].opt = "PointerDown"
                          /\ log[j].touches[1].id \in ids }

\* a single-touch touch-up of touch id that precedes every touch-down of the
\* pattern ids and follows every single-touch touch-down of the cycle
UpBeforePattern(log, id, ids) ==
    /\ PatternDowns(log, ids) # {}
    /\ \E i \in SingleCalls(log, id, "PointerUp") :
           /\ \A j \in PatternDowns(log, ids) : i < j
           /\ \A k \in SingleCalls(log, id, "PointerDown") : k < i

\* C30: the stick press takes priority over an open single-touch session:
\* when the L3 press edge finds leftTouchActive true, the touch-up of id 0 is
\* emitted before the touch-downs of the pattern, and the cycle ends with
\* leftTouchActive false, leftPointerLocked false, leftLockedDirection NONE
\* and currentLHeldDirection NONE; the same for R3 and the right side.
C30_StickPressClosesSingleTouch ==
    [][ \E in \in {polled'} :
        \E s1 \in {leftTriggerEdges(Members, in)} :
        \E s2 \in {rightTriggerEdges(s1, in)} :
        \E s3 \in {leftBumperHandling(s2, in)} :
        \E s4 \in {rightBumperHandling(s3, in)} :
        \E s5 \in {sendBothTogether(s4, in)} :
            /\ (in.l3 /\ ~prevL3 /\ s5.leftTouchActive)
                   => /\ UpBeforePattern(sent', 0, {0} \cup 2..9)
                      /\ l3TouchActive'
                      /\ ~leftTouchActive' /\ ~leftPointerLocked'
                      /\ leftLockedDirection' = NONE /\ currentLHeldDirection' = NONE
            /\ (in.r3 /\ ~prevR3 /\ s5.rightTouchActive)
                   => /\ UpBeforePattern(sent', 1, {1} \cup 10..17)
                      /\ r3TouchActive'
                      /\ ~rightTouchActive' /\ ~rightPointerLocked'
                      /\ rightLockedDirection' = NONE /\ currentRHeldDirection' = NONE
      ]_vars

\* L3 pressed with L1 and L2 held and nothing released: the touch-up of
\* id 0 comes from the stick-press block, the pattern follows it, and the
\* captured direction is gone although L2 is still held
C30_Witness ==
    /\ prevL3 /\ prevL1 /\ prevL2 /\ l3TouchActive
    /\ UpBeforePattern(sent, 0, {0} \cup 2..9)
    /\ ~leftTouchActive /\ ~leftPointerLocked
    /\ leftLockedDirection = NONE /\ currentLHeldDirection = NONE

\* a key-up of key in a log
KeyUpOf(log, key) ==
    \E i \in 1..Len(log) : /\ log[i].by = "simulateKeyPress"
                           /\ log[i].keyCode = getKeyCode(key)
                           /\ ~log[i].isDown

\* the direction handleKeyboardControl computes for a stick (KeyboardMode.cpp 35-38)
stickDirection(stick) == getDirection(calculateAngle(stick[1], stick[2]))

\* C31: in keyboard mode a key never stays down after its control is
\* released: after every cycle in which a side's button (L1 / R1) is not held
\* or its stick is centred, that side's current key is empty and its key-up
\* has been emitted, whatever the other side's button, stick and key are.
C31_KeyReleasedWithControl ==
    [][ \A l1 \in BOOLEAN, r1 \in BOOLEAN :
          handleKeyboardControl([ l1 |-> l1, r1 |-> r1,
                                  left |-> leftStick', right |-> rightStick' ])
          => /\ (~l1 \/ stickDirection(leftStick') = NONE)
                   => /\ currentLeftKey' = ""
                      /\ currentLeftKey # "" => KeyUpOf(sent', currentLeftKey)
             /\ (~r1 \/ stickDirection(rightStick') = NONE)
                   => /\ currentRightKey' = ""
                      /\ currentRightKey # "" => KeyUpOf(sent', currentRightKey)
      ]_vars

\* the left-button events of a log, downs or ups
ButtonEvents(log, down) ==
    { i \in 1..Len(log) : log[i].by = "sendMouseButton" /\ log[i].down = down }

\* C32: in mouse mode the left mouse button follows the bumpers: after every
\* handleMouseControl cycle mouseButtonPressed = (L1 held or R1 held);
\* button-down is emitted only on the transition from no bumper held to some
\* bumper held and button-up only on the transition to none held, so down and
\* up events strictly alternate, starting with down: a down is only ever sent
\* with the button up, an up with the button down, one event per step at
\* most, and the button state changes with an event only.
C32_ButtonFollowsBumpers ==
    [][ /\ running' =>
              /\ mouseButtonPressed' = (prevL1' \/ prevR1')
              /\ (ButtonEvents(sent', TRUE) # {})
                     <=> (~(prevL1 \/ prevR1) /\ (prevL1' \/ prevR1'))
              /\ (ButtonEvents(sent', FALSE) # {})
                     <=> ((prevL1 \/ prevR1) /\ ~(prevL1' \/ prevR1'))
        /\ Cardinality(ButtonEvents(sent', TRUE) \cup ButtonEvents(sent', FALSE)) <= 1
        /\ ButtonEvents(sent', TRUE) # {} => ~mouseButtonPressed /\ mouseButtonPressed'
        /\ ButtonEvents(sent', FALSE) # {} => mouseButtonPressed /\ ~mouseButtonPressed'
        /\ mouseButtonPressed' # mouseButtonPressed
               => ButtonEvents(sent', TRUE) \cup ButtonEvents(sent', FALSE) # {}
      ]_vars

\* the last bumper let go in mouse mode: the button-up of a button that an
\* earlier cycle pressed
C32_Witness ==
    /\ currentMode = "Mouse" /\ running
    /\ ~prevL1 /\ ~prevR1 /\ ~mouseButtonPressed
    /\ ButtonEvents(sent, FALSE) # {}

\* the cursor moves to a stick position in a log
CursorMoves(log) == { i \in 1..Len(log) : log[i].by = "moveMouseToStickPosition" }

\* the log moves the cursor once, to the point of stick
CursorFollows(log, stick) ==
    /\ Cardinality(CursorMoves(log)) = 1
    /\ \A i \in CursorMoves(log) : log[i].stickX = stick[1] /\ log[i].stickY = stick[2]

\* C33: in mouse mode, while both L1 and R1 are held, the cursor target
\* alternates between the left stick and the right stick on every consecutive
\* cycle (never the same stick in two consecutive both-held cycles); with
\* only one bumper held the cursor follows that side's stick and
\* alternateFrame is unchanged.
C33_CursorAlternatesBetweenSticks ==
    [][ running' =>
          /\ (prevL1' /\ prevR1')
                 => /\ alternateFrame' = ~alternateFrame
                    /\ CursorFollows(sent', IF alternateFrame' THEN leftStick' ELSE rightStick')
          /\ (prevL1 /\ prevR1 /\ prevL1' /\ prevR1')
                 => /\ CursorFollows(sent, IF alternateFrame THEN leftStick ELSE rightStick)
                    /\ CursorFollows(sent', IF alternateFrame THEN rightStick' ELSE leftStick')
          /\ (prevL1' /\ ~prevR1')
                 => CursorFollows(sent', leftStick') /\ alternateFrame' = alternateFrame
          /\ (~prevL1' /\ prevR1')
                 => CursorFollows(sent', rightStick') /\ alternateFrame' = alternateFrame
      ]_vars

\* both bumpers held, the sticks apart, and the cursor on the right stick:
\* the frame after one that put it on the left stick
C33_Witness ==
    /\ currentMode = "Mouse" /\ running
    /\ prevL1 /\ prevR1 /\ mouseButtonPressed
    /\ ButtonEvents(sent, TRUE) = {}
    /\ ~alternateFrame /\ leftStick # rightStick
    /\ CursorFollows(sent, rightStick)

\* C34: no session is left open without a held control: at the end of every
\* handleTouchControl cycle a side's touchActive implies that L1 or L2
\* (R1 or R2 for the right side) is held in that cycle.
C34_OpenSessionHasHeldControl ==
    /\ leftTouchActive => (prevL1 \/ prevL2)
    /\ rightTouchActive => (prevR1 \/ prevR2)

\* both sessions open, the left one on its bumper alone and the right one
\* on its trigger alone
C34_Witness ==
    /\ leftTouchActive /\ prevL1 /\ ~prevL2
    /\ rightTouchActive /\ prevR2 /\ ~prevR1

\* the single-touch touch-downs and touch-ups of touch id before position i
\* of a log
SessionEventsBefore(log, id, i) ==
    { j \in SingleCalls(log, id, "PointerDown") \cup SingleCalls(log, id, "PointerUp") : j < i }

\* the largest element of a non-empty set of positions
Latest(S) == CHOOSE j \in S : \A k \in S : k <= j

\* whether the session of touch id is open just before position i of a log
\* that starts with the session as startActive tells: the last touch-down or
\* touch-up before i decides, startActive when there is none
OpenBefore(log, id, i, startActive) ==
    IF SessionEventsBefore(log, id, i) = {} THEN startActive
    ELSE Latest(SessionEventsBefore(log, id, i)) \in SingleCalls(log, id, "PointerDown")

\* C35: a single-touch touch-up (sendTouch with isUp for id 0 or 1) is
\* emitted only at a point of the cycle where that side's touchActive is
\* true, and it sets touchActive to false: every touch-up of a cycle finds
\* the session open (by the flag the cycle started with or by a touch-down
\* earlier in the cycle), and the flag the cycle ends with is the one the
\* cycle's last touch-down or touch-up left; so no two touch-ups of a side
\* occur without a touch-down between them, also when L1 and L2 are released
\* in the same cycle.
C35_TouchUpOnlyWhenActive ==
    [][ /\ \A i \in SingleCalls(sent', 0, "PointerUp") :
               OpenBefore(sent', 0, i, leftTouchActive)
        /\ leftTouchActive' = OpenBefore(sent', 0, Len(sent') + 1, leftTouchActive)
        /\ \A i \in SingleCalls(sent', 1, "PointerUp") :
               OpenBefore(sent', 1, i, rightTouchActive)
        /\ rightTouchActive' = OpenBefore(sent', 1, Len(sent') + 1, rightTouchActive)
      ]_vars

\* the cycle after which neither L1 nor L2 is held closed the left session
\* with one touch-up, its last signal for touch 0
C35_Witness ==
    /\ ~prevL1 /\ ~prevL2 /\ ~leftTouchActive
    /\ Closes(sent, 0) = 1 /\ Opens(sent, 0) = 0

\* C36: at the end of every cycle, on each side, locked = false implies
\* that the locked endpoint is NONE: every step that clears the lock resets
\* the endpoint too, and the constructed state has locked false and the
\* endpoint NONE.
C36_UnlockedHasNoEndpoint ==
    /\ ~leftPointerLocked => leftLockedDirection = NONE
    /\ ~rightPointerLocked => rightLockedDirection = NONE

\* the left trigger held on an open session with a direction captured and
\* the stick back at the centre: the lock check was made and refused, and
\* the side is unlocked with no endpoint
C36_Witness ==
    /\ leftTouchActive /\ prevL2 /\ currentLHeldDirection # NONE
    /\ leftStick = <<0, 0>>
    /\ CentredChecks(invoked, 0) # {}
    /\ ~leftPointerLocked /\ leftLockedDirection = NONE

\* C37: at the end of every cycle, on each side, locked = true implies that
\* the locked endpoint is (heldDirection + 3) mod 8 or (heldDirection + 5)
\* mod 8 for the side's current heldDirection; hence the stored endpoint never
\* equals heldDirection and the locked path never has zero length.
C37_EndpointMatchesHeld ==
    /\ leftPointerLocked
           => /\ leftLockedDirection \in { (currentLHeldDirection + 3) % DIRECTION_SECTORS,
                                           (currentLHeldDirection + 5) % DIRECTION_SECTORS }
              /\ leftLockedDirection # currentLHeldDirection
    /\ rightPointerLocked
           => /\ rightLockedDirection \in { (currentRHeldDirection + 3) % DIRECTION_SECTORS,
                                            (currentRHeldDirection + 5) % DIRECTION_SECTORS }
              /\ rightLockedDirection # currentRHeldDirection

\* the left side locked on an open session after the stick left the held
\* sector: the endpoint is three sectors after the held one
C37_Witness ==
    /\ leftPointerLocked /\ leftTouchActive /\ prevL2
    /\ currentLHeldDirection # NONE
    /\ stickDirection(leftStick) # currentLHeldDirection
    /\ leftLockedDirection = (currentLHeldDirection + 3) % DIRECTION_SECTORS

RECURSIVE KeyEventsOf(_, _)
KeyEventsOf(log, keyCode) ==
    IF log = <<>> THEN <<>>
    ELSE IF Head(log).by = "simulateKeyPress" /\ Head(log).keyCode = keyCode
         THEN << Head(log).isDown >> \o KeyEventsOf(Tail(log), keyCode)
         ELSE KeyEventsOf(Tail(log), keyCode)

\* the digit keys
KeyCodes == { getKeyCode(sectorKey(d)) : d \in 0..(DIRECTION_SECTORS - 1) }

\* whether the key keyCode is down once the events of a log have been
\* applied to a keyboard on which it was down or not as wasDown tells
DownAfter(log, keyCode, wasDown) ==
    IF KeyEventsOf(log, keyCode) = <<>> THEN wasDown
    ELSE KeyEventsOf(log, keyCode)[Len(KeyEventsOf(log, keyCode))]

\* no key-down of a key already down and no key-up of a key that is up:
\* the events of each key alternate, starting from wasDown
KeyEventsAlternate(log, keyCode, wasDown) ==
    \A i \in 1..Len(KeyEventsOf(log, keyCode)) :
        KeyEventsOf(log, keyCode)[i] = IF i = 1 THEN ~wasDown
                                       ELSE ~KeyEventsOf(log, keyCode)[i - 1]

\* C39: in keyboard mode the two sides never hold the same key: at the end
\* of every handleKeyboardControl cycle currentLeftKey and currentRightKey
\* are different or both empty, and each side has at most one key down at
\* any moment: the keys that are down on the keyboard are exactly the
\* current keys of the two sides, before and after every cycle, and a
\* side's new key-down comes after the key-up of its previous key.
C39_SidesHoldDifferentKeys ==
    [][ /\ (currentLeftKey' # currentRightKey') \/ (currentLeftKey' = "" /\ currentRightKey' = "")
        /\ \A k \in KeyCodes :
               /\ KeyEventsAlternate(sent', k, k \in {getKeyCode(currentLeftKey),
                                                      getKeyCode(currentRightKey)})
               /\ DownAfter(sent', k, k \in {getKeyCode(currentLeftKey),
                                             getKeyCode(currentRightKey)})
                      <=> k \in {getKeyCode(currentLeftKey'), getKeyCode(currentRightKey')}
        /\ (LeftKeyWentDown /\ currentLeftKey # "")
               => \E i \in 1..Len(sent'), j \in 1..Len(sent') :
                      /\ i < j
                      /\ sent'[i] = [ by |-> "simulateKeyPress",
                                      keyCode |-> getKeyCode(currentLeftKey), isDown |-> FALSE ]
                      /\ sent'[j] = [ by |-> "simulateKeyPress",
                                      keyCode |-> getKeyCode(currentLeftKey'), isDown |-> TRUE ]
        /\ (RightKeyWentDown /\ currentRightKey # "")
               => \E i \in 1..Len(sent'), j \in 1..Len(sent') :
                      /\ i < j
                      /\ sent'[i] = [ by |-> "simulateKeyPress",
                                      keyCode |-> getKeyCode(currentRightKey), isDown |-> FALSE ]
                      /\ sent'[j] = [ by |-> "simulateKeyPress",
                                      keyCode |-> getKeyCode(currentRightKey'), isDown |-> TRUE ]
      ]_vars

\* both sticks in the same sector, the right side holding its key, and the
\* left side, which held another key, has let it go in this cycle and holds
\* none
C39_Witness ==
    /\ currentMode = "Keyboard" /\ running
    /\ stickDirection(leftStick) # NONE
    /\ stickDirection(leftStick) = stickDirection(rightStick)
    /\ currentRightKey = sectorKey(stickDirection(rightStick))
    /\ currentLeftKey = ""
    /\ \E i \in 1..Len(sent) : /\ sent[i].by = "simulateKeyPress"
                               /\ ~sent[i].isDown
                               /\ sent[i].keyCode # getKeyCode(currentRightKey)

====
